---- MODULE Spec2Model ----
(***************************************************************************)
(* A model of the smart rename engine of lua-beautifier                    *)
(* (src/server/variableAnalyzer.ts) and of the request handlers that       *)
(* format and scan a source (src/server/routes.ts).  Text is a sequence of *)
(* one-character strings; positions are 1-based (the source's are          *)
(* 0-based).  Every                                                        *)
(* regular expression of the source is modelled by an operator that scans  *)
(* the text the way the expression matches it.                             *)
(***************************************************************************)
EXTENDS Integers, Sequences, FiniteSets, TLC

\* ------------------------------------------------------------------------
\* Character classes of the source's regular expressions
\* ------------------------------------------------------------------------

Lower == {"a","b","c","d","e","f","g","h","i","j","k","l","m",
          "n","o","p","q","r","s","t","u","v","w","x","y","z"}

Upper == {"A","B","C","D","E","F","G","H","I","J","K","L","M",
          "N","O","P","Q","R","S","T","U","V","W","X","Y","Z"}

Digit == {"0","1","2","3","4","5","6","7","8","9"}

\* [A-Za-z_]
IdStart == Lower \cup Upper \cup {"_"}

\* [A-Za-z0-9_], which is also \w
WordCh == IdStart \cup Digit

\* \s
SpaceCh == {" ", "\t", "\n", "\r", "\f"}

\* ------------------------------------------------------------------------
\* Text helpers
\* ------------------------------------------------------------------------

Min(a, b) == IF a < b THEN a ELSE b

\* src[i]; the empty string stands for JavaScript's undefined
At(s, i) == IF i >= 1 /\ i <= Len(s) THEN s[i] ELSE ""

\* s.slice(from - 1, to), both ends clamped
Slice(s, from, to) == IF from > to THEN <<>> ELSE SubSeq(s, from, Min(to, Len(s)))

\* pat occurs in s at position i
StartsAt(s, i, pat) ==
  /\ i >= 1
  /\ i + Len(pat) - 1 <= Len(s)
  /\ \A k \in 1..Len(pat) : s[i + k - 1] = pat[k]

\* the least member of a set of positions, 0 for the empty set: a scan from
\* the left stops at the first position that qualifies
First(ps) == IF ps = {} THEN 0 ELSE CHOOSE p \in ps : \A q \in ps : p <= q

\* the first position >= i where pat occurs in s, 0 when there is none
IndexFrom(s, pat, i) == First({p \in i..Len(s) : StartsAt(s, p, pat)})

Contains(s, pat) == IndexFrom(s, pat, 1) # 0

\* \b at position i: between s[i-1] and s[i]
WordBoundary(s, i) == (At(s, i - 1) \in WordCh) # (At(s, i) \in WordCh)

\* the first position >= i whose character is not in class, Len(s)+1 at the end
SkipClass(s, i, class) ==
  IF i > Len(s) THEN i ELSE First({p \in i..(Len(s) + 1) : At(s, p) \notin class})

\* the end (exclusive) of an identifier [A-Za-z_][A-Za-z0-9_]* at i, 0 when none
IdentEnd(s, i) == IF At(s, i) \in IdStart THEN SkipClass(s, i + 1, WordCh) ELSE 0

\* String.prototype.trim
RECURSIVE TrimRight(_)
TrimRight(s) ==
  IF Len(s) > 0 /\ s[Len(s)] \in SpaceCh THEN TrimRight(SubSeq(s, 1, Len(s) - 1)) ELSE s

Trim(s) == TrimRight(Slice(s, SkipClass(s, 1, SpaceCh), Len(s)))

\* text.split(sep) for a one-character separator
RECURSIVE SplitOn(_, _)
SplitOn(s, sep) ==
  LET p == IndexFrom(s, <<sep>>, 1)
  IN  IF p = 0 THEN <<s>>
      ELSE <<Slice(s, 1, p - 1)>> \o SplitOn(Slice(s, p + 1, Len(s)), sep)

\* parts.join(sep)
RECURSIVE JoinWith(_, _)
JoinWith(ss, sep) ==
  IF Len(ss) = 0 THEN <<>>
  ELSE IF Len(ss) = 1 THEN ss[1]
  ELSE ss[1] \o sep \o JoinWith(Tail(ss), sep)

\* text.split(key).join(by): every occurrence of key, left to right
RECURSIVE ReplaceAll(_, _, _)
ReplaceAll(s, key, by) ==
  LET p == IndexFrom(s, key, 1)
  IN  IF p = 0 THEN s
      ELSE Slice(s, 1, p - 1) \o by \o ReplaceAll(Slice(s, p + Len(key), Len(s)), key, by)

\* String(n) for n >= 0
DigitChar(d) == <<"0","1","2","3","4","5","6","7","8","9">>[d + 1]

RECURSIVE ToDigits(_)
ToDigits(n) ==
  IF n < 10 THEN <<DigitChar(n)>> ELSE ToDigits(n \div 10) \o <<DigitChar(n % 10)>>

\* ------------------------------------------------------------------------
\* Masking
\* ------------------------------------------------------------------------

KindTag(type) ==
  IF type = "str" THEN <<"S","T","R">>
  ELSE IF type = "longstr" THEN <<"L","O","N","G","S","T","R">>
  ELSE <<"C","O","M","M","E","N","T">>

\* a placeholder that carries parts.length, the id after the one pushed
PlaceholderAfterPush(type, idx) ==
  <<"_","_","M","A","S","K","_">> \o KindTag(type) \o <<"_">> \o ToDigits(idx + 1) \o <<"_","_">>

\* `__MASK_${tag}_${idx}__`
Placeholder(type, idx) ==
  <<"_","_","M","A","S","K","_">> \o KindTag(type) \o <<"_">> \o ToDigits(idx) \o <<"_","_">>

\* a scan for the end of a long bracket that stops at the first ]
ScanLongCloseSingle(src, j) ==
  First({p \in j..(Len(src) + 1) : p > Len(src) \/ src[p] = "]"})

\* while (j < L && !(src[j] === "]" && src[j + 1] === "]")) j++
ScanLongClose(src, j) ==
  First({p \in j..(Len(src) + 1) : p > Len(src) \/ (src[p] = "]" /\ At(src, p + 1) = "]")})

\* a scan of a quoted string that takes the first quote equal to q for its
\* end, whatever is before it
ScanQuotedNoEscape(src, q, j, acc) ==
  LET p == First({k \in j..(Len(src) + 1) : k > Len(src) \/ src[k] = q})
  IN  [acc |-> acc \o Slice(src, j, p), j |-> IF p > Len(src) THEN p ELSE p + 1]

\* the loop over a quoted string: the text taken so far and the next index
RECURSIVE ScanQuoted(_, _, _, _)
ScanQuoted(src, q, j, acc) ==
  IF j > Len(src) THEN [acc |-> acc, j |-> j]
  ELSE LET c == src[j]
       IN  IF c = "\\" THEN
             ScanQuoted(src, q, j + 2,
                        acc \o <<c>> \o (IF At(src, j + 1) = "" THEN <<>> ELSE <<At(src, j + 1)>>))
           ELSE IF c = q THEN [acc |-> acc \o <<c>>, j |-> j + 1]
           ELSE ScanQuoted(src, q, j + 1, acc \o <<c>>)

\* while (j < L && src[j] !== "\n") j++
ScanLineEnd(src, j) == First({p \in j..(Len(src) + 1) : p > Len(src) \/ src[p] = "\n"})

\* parts.push(...); out += placeholder
Emit(out, parts, type, text) ==
  [masked |-> out \o Placeholder(type, Len(parts)),
   parts  |-> Append(parts, [type |-> type, text |-> text])]

\* one turn of the masker's loop at read index i; the record carries out, parts, i
MaskAt(src, i, out, parts) ==
  LET L  == Len(src)
      ch == src[i]
  IN  IF ch = "[" /\ At(src, i + 1) = "[" THEN
        LET j == ScanLongClose(src, i + 2)
        IN  Emit(out, parts, "longstr", Slice(src, i, Min(j + 1, L)))
              @@ [i |-> Min(j + 1, L) + 1]
      ELSE IF ch = "\"" \/ ch = "'" THEN
        LET r == ScanQuoted(src, ch, i + 1, <<ch>>)
        IN  Emit(out, parts, "str", r.acc) @@ [i |-> r.j]
      ELSE IF ch = "-" /\ At(src, i + 1) = "-" THEN
        IF At(src, i + 2) = "[" /\ At(src, i + 3) = "[" THEN
          LET j == ScanLongClose(src, i + 4)
          IN  Emit(out, parts, "comment", Slice(src, i, Min(j + 1, L)))
                @@ [i |-> Min(j + 1, L) + 1]
        ELSE
          LET j == ScanLineEnd(src, i + 2)
          IN  Emit(out, parts, "comment", Slice(src, i, j - 1)) @@ [i |-> j]
      ELSE [masked |-> Append(out, ch), parts |-> parts, i |-> i + 1]

\* a string, a long bracket or a comment starts at i
StartsSpan(src, i) ==
  \/ src[i] = "[" /\ At(src, i + 1) = "["
  \/ src[i] = "\"" \/ src[i] = "'"
  \/ src[i] = "-" /\ At(src, i + 1) = "-"

\* the loop of the masker from read index i on; the turns up to the next span
\* each copy one character (the last branch of MaskAt) and are taken together
RECURSIVE MaskLoop(_, _, _, _)
MaskLoop(src, i, out, parts) ==
  IF i > Len(src) THEN [masked |-> out, parts |-> parts]
  ELSE LET n == First({p \in i..(Len(src) + 1) : p > Len(src) \/ StartsSpan(src, p)})
       IN  IF n > i THEN MaskLoop(src, n, out \o Slice(src, i, n - 1), parts)
           ELSE LET r == MaskAt(src, i, out, parts)
                IN  MaskLoop(src, r.i, r.masked, r.parts)

maskStringsAndComments(src) == MaskLoop(src, 1, <<>>, <<>>)

RestoreKey(parts, idx) == Placeholder(parts[idx].type, idx - 1)

RECURSIVE RestoreFrom(_, _, _)
RestoreFrom(text, parts, idx) ==
  IF idx > Len(parts) THEN text
  ELSE RestoreFrom(ReplaceAll(text, RestoreKey(parts, idx), parts[idx].text), parts, idx + 1)

restoreMasked(maskedText, maskData) == RestoreFrom(maskedText, maskData.parts, 1)

\* ------------------------------------------------------------------------
\* Code analysis
\* ------------------------------------------------------------------------

NoMatch == [ok |-> FALSE]

\* \s+ident\s*\(([^)]*)\) after the word function, which ends before q
FuncTail(line, q) ==
  IF At(line, q) \notin SpaceCh THEN NoMatch
  ELSE LET n == SkipClass(line, q, SpaceCh)
           e == IdentEnd(line, n)
       IN  IF e = 0 THEN NoMatch
           ELSE LET r == SkipClass(line, e, SpaceCh)
                    c == IndexFrom(line, <<")">>, r + 1)
                IN  IF At(line, r) = "(" /\ c # 0
                    THEN [ok |-> TRUE, name |-> Slice(line, n, e - 1),
                          args |-> Slice(line, r + 1, c - 1)]
                    ELSE NoMatch

\* /\bfunction\s+([A-Za-z_][A-Za-z0-9_]*)\s*\(([^)]*)\)/ tried at p
FuncMatchAt(line, p) ==
  IF WordBoundary(line, p) /\ StartsAt(line, p, <<"f","u","n","c","t","i","o","n">>)
  THEN FuncTail(line, p + 8)
  ELSE NoMatch

\* /\blocal\s+function\s+([A-Za-z_][A-Za-z0-9_]*)\s*\(([^)]*)\)/ tried at p
LocalFuncMatchAt(line, p) ==
  IF WordBoundary(line, p) /\ StartsAt(line, p, <<"l","o","c","a","l">>) /\ At(line, p + 5) \in SpaceCh
  THEN LET q == SkipClass(line, p + 5, SpaceCh)
       IN  IF StartsAt(line, q, <<"f","u","n","c","t","i","o","n">>) THEN FuncTail(line, q + 8) ELSE NoMatch
  ELSE NoMatch

FuncMatchFrom(line, p) ==
  LET at == First({q \in p..Len(line) : FuncMatchAt(line, q).ok})
  IN  IF at = 0 THEN NoMatch ELSE FuncMatchAt(line, at)

LocalFuncMatchFrom(line, p) ==
  LET at == First({q \in p..Len(line) : LocalFuncMatchAt(line, q).ok})
  IN  IF at = 0 THEN NoMatch ELSE LocalFuncMatchAt(line, at)

\* let fm = line.match(function header); if (localFuncMatch) fm = localFuncMatch
FuncHeader(line) ==
  LET lf == LocalFuncMatchFrom(line, 1)
  IN  IF lf.ok THEN lf ELSE FuncMatchFrom(line, 1)

\* /\bend\b/.test(line)
HasEnd(line) ==
  \E p \in 1..Len(line) :
     StartsAt(line, p, <<"e","n","d">>) /\ WordBoundary(line, p) /\ WordBoundary(line, p + 3)

\* f.lines.push(line) on the top of the stack
PushLine(stack, line) ==
  [stack EXCEPT ![Len(stack)].lines = Append(@, line)]

\* the function emitted when the line at index li (0-based) holds an end
PopFunction(lines, f, li) ==
  [name    |-> f.name,
   args    |-> f.args,
   start   |-> f.start,
   end     |-> li,
   rawBody |-> JoinWith(Slice(lines, f.start + 2, li), <<"\n">>),
   lines   |-> f.lines]

\* a turn of the loop that emits a function as soon as its header is seen, with
\* the header line for its end
FuncStepEmitsPartial(lines, k, stack, functions) ==
  LET line == lines[k]
      fm   == FuncHeader(line)
      f    == [name |-> fm.name, start |-> k - 1, args |-> fm.args, lines |-> <<>>]
  IN  IF fm.ok THEN
        [stack |-> Append(stack, f),
         functions |-> Append(functions, PopFunction(lines, f, k - 1))]
      ELSE IF HasEnd(line) /\ Len(stack) > 0 THEN
        [stack |-> SubSeq(stack, 1, Len(stack) - 1),
         functions |-> Append(functions, PopFunction(lines, stack[Len(stack)], k - 1))]
      ELSE IF Len(stack) > 0 THEN
        [stack |-> PushLine(stack, line), functions |-> functions]
      ELSE [stack |-> stack, functions |-> functions]

\* a turn of the loop whose end takes the oldest function of the stack
FuncStepOldestFirst(lines, k, stack, functions) ==
  LET line == lines[k]
      fm   == FuncHeader(line)
  IN  IF fm.ok THEN
        [stack |-> Append(stack, [name |-> fm.name, start |-> k - 1,
                                  args |-> fm.args, lines |-> <<>>]),
         functions |-> functions]
      ELSE IF HasEnd(line) /\ Len(stack) > 0 THEN
        [stack |-> Tail(stack),
         functions |-> Append(functions, PopFunction(lines, stack[1], k - 1))]
      ELSE IF Len(stack) > 0 THEN
        [stack |-> PushLine(stack, line), functions |-> functions]
      ELSE [stack |-> stack, functions |-> functions]

\* one turn of the first loop of analyzeCode, on line k (1-based; li = k - 1)
FuncStep(lines, k, stack, functions) ==
  LET line == lines[k]
      fm   == FuncHeader(line)
  IN  IF fm.ok THEN
        [stack |-> Append(stack, [name |-> fm.name, start |-> k - 1,
                                  args |-> fm.args, lines |-> <<>>]),
         functions |-> functions]
      ELSE IF HasEnd(line) /\ Len(stack) > 0 THEN
        [stack |-> SubSeq(stack, 1, Len(stack) - 1),
         functions |-> Append(functions, PopFunction(lines, stack[Len(stack)], k - 1))]
      ELSE IF Len(stack) > 0 THEN
        [stack |-> PushLine(stack, line), functions |-> functions]
      ELSE [stack |-> stack, functions |-> functions]

RECURSIVE FuncLoop(_, _, _, _)
FuncLoop(lines, k, stack, functions) ==
  IF k > Len(lines) THEN [stack |-> stack, functions |-> functions]
  ELSE LET r == FuncStep(lines, k, stack, functions)
       IN  FuncLoop(lines, k + 1, r.stack, r.functions)

\* the end (exclusive) of (?:\s*,\s*[A-Za-z_][A-Za-z0-9_]*)* starting at e
RECURSIVE NameListEnd(_, _)
NameListEnd(line, e) ==
  LET r  == SkipClass(line, e, SpaceCh)
      n  == SkipClass(line, r + 1, SpaceCh)
      e2 == IdentEnd(line, n)
  IN  IF At(line, r) = "," /\ e2 # 0 THEN NameListEnd(line, e2) ELSE e

\* m[1].split(/\s*,\s*/) of a matched name list
RECURSIVE SplitNames(_)
SplitNames(s) ==
  LET e == IdentEnd(s, 1)
      r == SkipClass(s, e, SpaceCh)
  IN  IF At(s, r) = ","
      THEN <<Slice(s, 1, e - 1)>> \o SplitNames(Slice(s, SkipClass(s, r + 1, SpaceCh), Len(s)))
      ELSE <<Slice(s, 1, e - 1)>>

\* the text after "=" at t that \s*(.+) captures, trimmed; empty when there is none
RhsAfter(line, t) == IF At(line, t) = "=" THEN Trim(Slice(line, t + 1, Len(line))) ELSE <<>>

\* /\blocal\s+(names)\s*(?:=\s*(.+))?/ tried at p
LocalMatchAt(line, p) ==
  IF WordBoundary(line, p) /\ StartsAt(line, p, <<"l","o","c","a","l">>) /\ At(line, p + 5) \in SpaceCh
  THEN LET q == SkipClass(line, p + 5, SpaceCh)
           e == IdentEnd(line, q)
       IN  IF e = 0 THEN NoMatch
           ELSE LET ne == NameListEnd(line, e)
                IN  [ok |-> TRUE,
                     names |-> SplitNames(Slice(line, q, ne - 1)),
                     rhs |-> RhsAfter(line, SkipClass(line, ne, SpaceCh))]
  ELSE NoMatch

LocalMatchFrom(line, p) ==
  LET at == First({q \in p..Len(line) : LocalMatchAt(line, q).ok})
  IN  IF at = 0 THEN NoMatch ELSE LocalMatchAt(line, at)

\* for (const n of names) locals.push({ name: n, rhs, lineNo: li })
LocalsOfLine(line, li) ==
  LET m == LocalMatchFrom(line, 1)
  IN  IF m.ok
      THEN [i \in 1..Len(m.names) |-> [name |-> m.names[i], rhs |-> m.rhs, lineNo |-> li]]
      ELSE <<>>

\* /^\s*([A-Za-z_][A-Za-z0-9_]*)\s*=\s*(.+)$/
GlobalsOfLine(line, li) ==
  LET q == SkipClass(line, 1, SpaceCh)
      e == IdentEnd(line, q)
      t == SkipClass(line, e, SpaceCh)
  IN  IF e # 0 /\ At(line, t) = "=" /\ t < Len(line)
      THEN <<[name |-> Slice(line, q, e - 1), rhs |-> RhsAfter(line, t), lineNo |-> li]>>
      ELSE <<>>

\* /([A-Za-z_][A-Za-z0-9_]*)\s*(?:\.|:)\s*([A-Za-z_][A-Za-z0-9_]*)/ tried at p
PropMatchAt(line, p) ==
  LET e == IdentEnd(line, p)
  IN  IF e = 0 THEN NoMatch
      ELSE LET r  == SkipClass(line, e, SpaceCh)
               n  == SkipClass(line, r + 1, SpaceCh)
               e2 == IdentEnd(line, n)
           IN  IF At(line, r) \in {".", ":"} /\ e2 # 0
               THEN [ok |-> TRUE, obj |-> Slice(line, p, e - 1),
                     prop |-> Slice(line, n, e2 - 1), next |-> e2]
               ELSE NoMatch

\* the names every plain object inherits from Object.prototype
ObjectPrototypeKeys ==
  { <<"c","o","n","s","t","r","u","c","t","o","r">>, <<"t","o","S","t","r","i","n","g">>, <<"t","o","L","o","c","a","l","e","S","t","r","i","n","g">>, <<"v","a","l","u","e","O","f">>, <<"h","a","s","O","w","n","P","r","o","p","e","r","t","y">>,
    <<"i","s","P","r","o","t","o","t","y","p","e","O","f">>, <<"p","r","o","p","e","r","t","y","I","s","E","n","u","m","e","r","a","b","l","e">>, <<"_","_","p","r","o","t","o","_","_">>, <<"_","_","d","e","f","i","n","e","G","e","t","t","e","r","_","_">>,
    <<"_","_","d","e","f","i","n","e","S","e","t","t","e","r","_","_">>, <<"_","_","l","o","o","k","u","p","G","e","t","t","e","r","_","_">>, <<"_","_","l","o","o","k","u","p","S","e","t","t","e","r","_","_">> }

InSeq(x, s) == \E i \in 1..Len(s) : s[i] = x

\* propertyUsages[obj] = propertyUsages[obj] || new Set(); propertyUsages[obj].add(prop)
\* An inherited member is truthy and has no add: the call throws a TypeError.
AddUsage(pu, obj, prop) ==
  IF obj \in ObjectPrototypeKeys THEN [threw |-> TRUE, pu |-> pu]
  ELSE IF obj \in DOMAIN pu THEN
    [threw |-> FALSE,
     pu |-> [pu EXCEPT ![obj] = IF InSeq(prop, @) THEN @ ELSE Append(@, prop)]]
  ELSE [threw |-> FALSE, pu |-> pu @@ (obj :> <<prop>>)]

\* while ((p = propRegex.exec(line)) !== null) ...
RECURSIVE PropLoop(_, _, _)
PropLoop(line, p, pu) ==
  LET at == First({q \in p..Len(line) : PropMatchAt(line, q).ok})
  IN  IF at = 0 THEN [threw |-> FALSE, pu |-> pu]
      ELSE LET m == PropMatchAt(line, at)
               r == AddUsage(pu, m.obj, m.prop)
           IN  IF r.threw THEN r ELSE PropLoop(line, m.next, r.pu)

\* the second loop of analyzeCode
RECURSIVE DeclLoop(_, _, _, _, _)
DeclLoop(lines, k, locals, globals, pu) ==
  IF k > Len(lines)
  THEN [threw |-> FALSE, locals |-> locals, globals |-> globals, propertyUsages |-> pu]
  ELSE LET r == PropLoop(lines[k], 1, pu)
       IN  IF r.threw
           THEN [threw |-> TRUE, locals |-> locals, globals |-> globals, propertyUsages |-> pu]
           ELSE DeclLoop(lines, k + 1,
                         locals \o LocalsOfLine(lines[k], k - 1),
                         globals \o GlobalsOfLine(lines[k], k - 1),
                         r.pu)

EmptyUsages == [x \in {} |-> <<>>]

analyzeCode(code) ==
  LET lines == SplitOn(code, "\n")
      fs    == FuncLoop(lines, 1, <<>>, <<>>)
      ds    == DeclLoop(lines, 1, <<>>, <<>>, EmptyUsages)
  IN  [threw          |-> ds.threw,
       locals         |-> ds.locals,
       globals        |-> ds.globals,
       functions      |-> fs.functions,
       propertyUsages |-> ds.propertyUsages,
       lines          |-> lines]

\* ------------------------------------------------------------------------
\* Rename map builder
\* ------------------------------------------------------------------------

\* the rename map is the sequence of its entries [old, new] in insertion order

MapKeys(map) == {map[i].old : i \in 1..Len(map)}

MapGet(map, k) == (CHOOSE i \in 1..Len(map) : map[i].old = k)

\* if (map[old]): an own entry, or a member inherited from Object.prototype
MapTruthy(map, old) == old \in MapKeys(map) \/ old \in ObjectPrototypeKeys

\* the used-names set buildRenameMap ended with
VARIABLE usedNames

\* the used-names set the previous call ended with
StaleUsedNames == usedNames

\* const usedNames = new Set<string>()
FreshUsedNames == {}

\* const map = {}
FreshMap == <<>>

RECURSIVE UniqueFrom(_, _, _, _)
UniqueFrom(base, name, i, used) ==
  IF name \in used THEN UniqueFrom(base, base \o ToDigits(i), i + 1, used) ELSE name

\* uniqueName(base): the name it returns; the caller adds it to usedNames
uniqueName(base, used) == UniqueFrom(base, base, 1, used)

\* the run of characters outside class after position p, as [^"']+ takes it
QuoteCh == {"\"", "'"}

SkipUnquoted(s, i) == First({p \in i..(Len(s) + 1) : p > Len(s) \/ s[p] \in QuoteCh})

\* prefix ["']([^"']+)["'] suffix, leftmost; the captured group or <<>>
RECURSIVE QuotedArgFrom(_, _, _, _)
QuotedArgFrom(s, prefix, suffix, p) ==
  LET at == IndexFrom(s, prefix, p)
      a  == at + Len(prefix)
      e  == SkipUnquoted(s, a + 1)
  IN  IF at = 0 THEN <<>>
      ELSE IF At(s, a) \in QuoteCh /\ e > a + 1 /\ At(s, e) \in QuoteCh
              /\ StartsAt(s, e + 1, suffix)
           THEN Slice(s, a + 1, e - 1)
           ELSE QuotedArgFrom(s, prefix, suffix, at + 1)

\* /game:GetService\(["']([^"']+)["']\)/
ServiceName(rhs) == QuotedArgFrom(rhs, <<"g","a","m","e",":","G","e","t","S","e","r","v","i","c","e","(">>, <<")">>, 1)

\* /Instance\.new\(["']([^"']+)["']/
InstanceClass(text) == QuotedArgFrom(text, <<"I","n","s","t","a","n","c","e",".","n","e","w","(">>, <<>>, 1)

\* the last position of "." in s, 0 when there is none
LastDot(s) ==
  LET ds == {p \in 1..Len(s) : s[p] = "."}
  IN  IF ds = {} THEN 0 ELSE CHOOSE p \in ds : \A q \in ds : q <= p

\* the start of the run of word characters that ends at i
WordRunStart(s, i) == First({p \in 1..(i + 1) : \A q \in p..i : s[q] \in WordCh})

\* /([A-Za-z_][A-Za-z0-9_]*(?:\.[A-Za-z_][A-Za-z0-9_]*)+)$/ and m[1].split(".").pop():
\* the text ends with ident.ident; the last segment, or <<>> when it does not match
MemberChainLast(rhs) ==
  LET d == LastDot(rhs)
  IN  IF d = 0 THEN <<>>
      ELSE IF /\ IdentEnd(rhs, d + 1) = Len(rhs) + 1
              /\ \E i \in WordRunStart(rhs, d - 1)..(d - 1) : rhs[i] \in IdStart
           THEN Slice(rhs, d + 1, Len(rhs))
           ELSE <<>>

uiMap ==
  << [cls |-> <<"S","c","r","e","e","n","G","u","i">>,      name |-> <<"M","a","i","n","G","u","i">>],
     [cls |-> <<"F","r","a","m","e">>,          name |-> <<"M","a","i","n","F","r","a","m","e">>],
     [cls |-> <<"T","e","x","t","L","a","b","e","l">>,      name |-> <<"T","i","t","l","e","L","a","b","e","l">>],
     [cls |-> <<"T","e","x","t","B","u","t","t","o","n">>,     name |-> <<"A","c","t","i","o","n","B","u","t","t","o","n">>],
     [cls |-> <<"I","m","a","g","e","B","u","t","t","o","n">>,    name |-> <<"I","m","a","g","e","B","u","t","t","o","n">>],
     [cls |-> <<"T","e","x","t","B","o","x">>,        name |-> <<"T","e","x","t","B","o","x">>],
     [cls |-> <<"U","I","S","t","r","o","k","e">>,       name |-> <<"O","u","t","l","i","n","e","S","t","r","o","k","e">>],
     [cls |-> <<"U","I","C","o","r","n","e","r">>,       name |-> <<"F","r","a","m","e","C","o","r","n","e","r","s">>],
     [cls |-> <<"S","c","r","o","l","l","i","n","g","F","r","a","m","e">>, name |-> <<"S","c","r","o","l","l","i","n","g","F","r","a","m","e">>],
     [cls |-> <<"V","i","e","w","p","o","r","t","F","r","a","m","e">>,  name |-> <<"V","i","e","w","p","o","r","t","F","r","a","m","e">>] >>

\* uiMap[cls] || cls
UiName(cls) ==
  IF \E i \in 1..Len(uiMap) : uiMap[i].cls = cls
  THEN uiMap[CHOOSE i \in 1..Len(uiMap) : uiMap[i].cls = cls].name
  ELSE cls

\* /\b(true|false)\b/
HasBoolean(rhs) ==
  \E p \in 1..Len(rhs) :
     /\ WordBoundary(rhs, p)
     /\ \/ StartsAt(rhs, p, <<"t","r","u","e">>)  /\ WordBoundary(rhs, p + 4)
        \/ StartsAt(rhs, p, <<"f","a","l","s","e">>) /\ WordBoundary(rhs, p + 5)

\* /^\d+(\.\d+)?$/
IsNumber(rhs) ==
  LET e == SkipClass(rhs, 1, Digit)
  IN  /\ e > 1
      /\ \/ e = Len(rhs) + 1
         \/ /\ At(rhs, e) = "."
            /\ SkipClass(rhs, e + 1, Digit) = Len(rhs) + 1
            /\ e + 1 <= Len(rhs)

prefer ==
  << <<"L","o","c","a","l","P","l","a","y","e","r">>, <<"C","h","a","r","a","c","t","e","r">>, <<"H","u","m","a","n","o","i","d">>, <<"H","u","m","a","n","o","i","d","R","o","o","t","P","a","r","t">>, <<"C","u","r","r","e","n","t","C","a","m","e","r","a">>,
     <<"A","n","i","m","a","t","o","r">>, <<"P","o","s","i","t","i","o","n">>, <<"V","e","l","o","c","i","t","y">>, <<"S","i","z","e">> >>

\* for (const p of prefer) if (props.includes(p)) return p; return props[0]
PropHint(props) ==
  IF \E i \in 1..Len(prefer) : InSeq(prefer[i], props)
  THEN prefer[CHOOSE i \in 1..Len(prefer) :
                /\ InSeq(prefer[i], props)
                /\ \A j \in 1..(i - 1) : ~InSeq(prefer[j], props)]
  ELSE props[1]

\* inferFromRHS; <<>> stands for null (no rule returns an empty name)
inferFromRHS(rhs, nameHintFromProps) ==
  IF rhs = <<>> THEN <<>>
  ELSE IF ServiceName(rhs) # <<>> THEN ServiceName(rhs)
  ELSE IF MemberChainLast(rhs) # <<>> THEN MemberChainLast(rhs)
  ELSE IF InstanceClass(rhs) # <<>> THEN UiName(InstanceClass(rhs))
  ELSE IF Contains(rhs, <<"V","e","c","t","o","r","3",".","n","e","w">>) THEN <<"V","e","c","t","o","r","3","V","a","l","u","e">>
  ELSE IF Contains(rhs, <<"U","D","i","m","2",".","n","e","w">>) THEN <<"U","D","i","m","2","V","a","l","u","e">>
  ELSE IF HasBoolean(rhs) THEN <<"E","n","a","b","l","e","d">>
  ELSE IF IsNumber(rhs) THEN <<"N","u","m","b","e","r">>
  ELSE IF Len(nameHintFromProps) > 0 THEN PropHint(nameHintFromProps)
  ELSE <<>>

LowerSeq == << "a","b","c","d","e","f","g","h","i","j","k","l","m",
               "n","o","p","q","r","s","t","u","v","w","x","y","z" >>

UpperSeq == << "A","B","C","D","E","F","G","H","I","J","K","L","M",
               "N","O","P","Q","R","S","T","U","V","W","X","Y","Z" >>

ToUpper(c) ==
  IF c \in Lower THEN UpperSeq[CHOOSE i \in 1..26 : LowerSeq[i] = c] ELSE c

\* s.charAt(0).toUpperCase() + s.slice(1)
capitalize(s) == IF Len(s) = 0 THEN s ELSE <<ToUpper(s[1])>> \o Tail(s)

\* analysis.propertyUsages[old]; undefined and the empty set both give no hint
PropsOf(analysis, old) ==
  IF old \in DOMAIN analysis.propertyUsages THEN analysis.propertyUsages[old] ELSE <<>>

\* old.match(/^(v|vu|_v)(\d+)/i): the position of the digits, 0 when no match
ObfuscatedDigitsAt(old) ==
  IF At(old, 1) \in {"v", "V"} /\ At(old, 2) \in Digit THEN 2
  ELSE IF At(old, 1) \in {"v", "V"} /\ At(old, 2) \in {"u", "U"} /\ At(old, 3) \in Digit THEN 3
  ELSE IF At(old, 1) = "_" /\ At(old, 2) \in {"v", "V"} /\ At(old, 3) \in Digit THEN 3
  ELSE 0

\* the base name of a local: the inferred name, or one of the fallbacks
LocalBase(analysis, loc) ==
  LET old      == loc.name
      inferred == inferFromRHS(loc.rhs, PropsOf(analysis, old))
      d        == ObfuscatedDigitsAt(old)
  IN  IF inferred # <<>> THEN inferred
      ELSE IF d # 0 THEN <<"V","a","r","i","a","b","l","e">> \o Slice(old, d, SkipClass(old, d, Digit) - 1)
      ELSE IF At(old, 1) = "_" /\ At(old, 2) \in Lower
           THEN <<"T","e","m","p","_">> \o Slice(old, SkipClass(old, 1, {"_"}), Len(old))
      ELSE <<"V","a","l","u","e">>

GlobalBase(analysis, g) ==
  LET inferred == inferFromRHS(g.rhs, PropsOf(analysis, g.name))
  IN  IF inferred # <<>> THEN inferred ELSE <<"G","l","o","b","a","l">>

\* /:\s*Connect\b/
HasColonConnect(body) ==
  \E p \in 1..Len(body) :
     /\ body[p] = ":"
     /\ LET q == SkipClass(body, p + 1, SpaceCh)
        IN  StartsAt(body, q, <<"C","o","n","n","e","c","t">>) /\ WordBoundary(body, q + 7)

\* /\.Connect\b/
HasDotConnect(body) ==
  \E p \in 1..Len(body) : StartsAt(body, p, <<".","C","o","n","n","e","c","t">>) /\ WordBoundary(body, p + 8)

FunctionBase(f) ==
  LET body == IF f.rawBody # <<>> THEN f.rawBody ELSE JoinWith(f.lines, <<"\n">>)
      cls  == InstanceClass(body)
  IN  IF cls # <<>> THEN <<"C","r","e","a","t","e">> \o capitalize(cls)
      ELSE IF HasColonConnect(body) \/ HasDotConnect(body) \/ Contains(body, <<"C","o","n","n","e","c","t","(">>)
           THEN <<"O","n","E","v","e","n","t">>
      ELSE IF \/ Contains(body, <<"H","e","a","r","t","b","e","a","t">>)
              \/ Contains(body, <<"R","e","n","d","e","r","S","t","e","p","p","e","d">>)
              \/ Contains(body, <<"S","t","e","p","p","e","d">>)
           THEN <<"O","n","H","e","a","r","t","b","e","a","t">>
      ELSE <<"F","u","n","c","t","i","o","n">>

\* map[old] = uniqueName(base)
Assign(st, old, base) ==
  LET name == uniqueName(base, st.used)
  IN  [map |-> Append(st.map, [old |-> old, new |-> name]),
       used |-> st.used \cup {name}]

RECURSIVE LocalsPass(_, _, _)
LocalsPass(analysis, i, st) ==
  IF i > Len(analysis.locals) THEN st
  ELSE LocalsPass(analysis, i + 1,
         IF MapTruthy(st.map, analysis.locals[i].name) THEN st
         ELSE Assign(st, analysis.locals[i].name, LocalBase(analysis, analysis.locals[i])))

RECURSIVE GlobalsPass(_, _, _)
GlobalsPass(analysis, i, st) ==
  IF i > Len(analysis.globals) THEN st
  ELSE GlobalsPass(analysis, i + 1,
         IF MapTruthy(st.map, analysis.globals[i].name) THEN st
         ELSE Assign(st, analysis.globals[i].name, GlobalBase(analysis, analysis.globals[i])))

RECURSIVE FunctionsPass(_, _, _)
FunctionsPass(analysis, i, st) ==
  IF i > Len(analysis.functions) THEN st
  ELSE FunctionsPass(analysis, i + 1,
         IF MapTruthy(st.map, analysis.functions[i].name) THEN st
         ELSE Assign(st, analysis.functions[i].name, FunctionBase(analysis.functions[i])))

keywords ==
  { <<"l","o","c","a","l">>, <<"f","u","n","c","t","i","o","n">>, <<"e","n","d">>, <<"i","f">>, <<"t","h","e","n">>, <<"e","l","s","e">>, <<"t","r","u","e">>, <<"f","a","l","s","e">>, <<"n","i","l">>,
    <<"r","e","t","u","r","n">>, <<"f","o","r">>, <<"w","h","i","l","e">>, <<"d","o">>, <<"r","e","p","e","a","t">>, <<"u","n","t","i","l">> }

\* for (const k in map) if (keywords.has(map[k])) map[k] = "_" + map[k]
KeywordPass(map) ==
  [i \in 1..Len(map) |->
     IF map[i].new \in keywords
     THEN [old |-> map[i].old, new |-> <<"_">> \o map[i].new]
     ELSE map[i]]

protected_names ==
  { <<"g","a","m","e">>, <<"w","o","r","k","s","p","a","c","e">>, <<"s","c","r","i","p","t">>, <<"r","e","q","u","i","r","e">>, <<"p","r","i","n","t">>, <<"w","a","r","n">>,
    <<"I","n","s","t","a","n","c","e">>, <<"U","D","i","m","2">>, <<"V","e","c","t","o","r","3">>, <<"C","o","l","o","r","3">> }

\* buildRenameMap with every option true, as smartRename calls it: the map it
\* returns and the used-names set it leaves behind
buildRenameMap(analysis) ==
  LET s1 == LocalsPass(analysis, 1, [map |-> FreshMap, used |-> FreshUsedNames])
      s2 == GlobalsPass(analysis, 1, s1)
      s3 == FunctionsPass(analysis, 1, s2)
  IN  [map |-> KeywordPass(s3.map), used |-> s3.used \cup protected_names]

\* ------------------------------------------------------------------------
\* Applying the renames
\* ------------------------------------------------------------------------

\* insertion of k into keys sorted by descending length, after its equals (stable)
RECURSIVE InsertByLength(_, _)
InsertByLength(sorted, k) ==
  IF sorted = <<>> THEN <<k>>
  ELSE IF Len(sorted[1]) >= Len(k) THEN <<sorted[1]>> \o InsertByLength(Tail(sorted), k)
  ELSE <<k>> \o sorted

\* Object.keys(renameMap).sort((a, b) => b.length - a.length)
RECURSIVE SortedKeysFrom(_, _, _)
SortedKeysFrom(map, i, sorted) ==
  IF i > Len(map) THEN sorted
  ELSE SortedKeysFrom(map, i + 1, InsertByLength(sorted, map[i].old))

SortedKeys(map) == SortedKeysFrom(map, 1, <<>>)

\* (k1|k2|...) tried at p with no \b after the group
RECURSIVE KeyAtNoBoundary(_, _, _, _)
KeyAtNoBoundary(seg, p, keys, i) ==
  IF i > Len(keys) THEN <<>>
  ELSE IF StartsAt(seg, p, keys[i]) THEN keys[i]
  ELSE KeyAtNoBoundary(seg, p, keys, i + 1)

\* (k1|k2|...)\b tried at p, the alternatives in order: the key matched, or <<>>
RECURSIVE KeyAt(_, _, _, _)
KeyAt(seg, p, keys, i) ==
  IF i > Len(keys) THEN <<>>
  ELSE IF StartsAt(seg, p, keys[i]) /\ WordBoundary(seg, p + Len(keys[i])) THEN keys[i]
  ELSE KeyAt(seg, p, keys, i + 1)

\* renameMap[p1] || m
Replacement(map, k) == map[MapGet(map, k)].new

\* \b(k1|k2|...)\b tried at p
MatchAt(seg, p, keys) == IF WordBoundary(seg, p) THEN KeyAt(seg, p, keys, 1) ELSE <<>>

\* seg.replace(regex, ...) with the g flag, from position p on
RECURSIVE ReplaceFrom(_, _, _, _)
ReplaceFrom(seg, p, keys, map) ==
  LET at == First({q \in p..Len(seg) : MatchAt(seg, q, keys) # <<>>})
      k  == MatchAt(seg, at, keys)
  IN  IF at = 0 THEN Slice(seg, p, Len(seg))
      ELSE Slice(seg, p, at - 1) \o Replacement(map, k)
             \o ReplaceFrom(seg, at + Len(k), keys, map)

replaceIdentifiersInSegment(seg, renameMap) ==
  IF seg = <<>> \/ Len(renameMap) = 0 THEN seg
  ELSE ReplaceFrom(seg, 1, SortedKeys(renameMap), renameMap)

\* /__MASK_(STR|LONGSTR|COMMENT)_(\d+)__/ tried at p: the end (exclusive), 0 when none
PlaceholderEnd(text, p) ==
  IF ~StartsAt(text, p, <<"_","_","M","A","S","K","_">>) THEN 0
  ELSE LET k == p + 7
           t == IF StartsAt(text, k, <<"S","T","R">>) THEN k + 3
                ELSE IF StartsAt(text, k, <<"L","O","N","G","S","T","R">>) THEN k + 7
                ELSE IF StartsAt(text, k, <<"C","O","M","M","E","N","T">>) THEN k + 7
                ELSE 0
           d == SkipClass(text, t + 1, Digit)
       IN  IF t # 0 /\ At(text, t) = "_" /\ d > t + 1 /\ StartsAt(text, d, <<"_","_">>)
           THEN d + 2
           ELSE 0

\* the loop of applyRenamesMaskSafe from lastIndex on
RECURSIVE ApplyFrom(_, _, _)
ApplyFrom(masked, lastIndex, renameMap) ==
  LET at == First({p \in lastIndex..Len(masked) : PlaceholderEnd(masked, p) # 0})
      e  == PlaceholderEnd(masked, at)
  IN  IF at = 0
      THEN replaceIdentifiersInSegment(Slice(masked, lastIndex, Len(masked)), renameMap)
      ELSE replaceIdentifiersInSegment(Slice(masked, lastIndex, at - 1), renameMap)
             \o Slice(masked, at, e - 1)
             \o ApplyFrom(masked, e, renameMap)

applyRenamesMaskSafe(masked, renameMap) == ApplyFrom(masked, 1, renameMap)

\* ------------------------------------------------------------------------
\* POST /api/detect-vars (src/server/routes.ts)
\* ------------------------------------------------------------------------

ToLower(c) ==
  IF c \in Upper THEN LowerSeq[CHOOSE i \in 1..26 : UpperSeq[i] = c] ELSE c

\* String.prototype.toLowerCase
toLowerCase(s) == [i \in 1..Len(s) |-> ToLower(s[i])]

\* \bword\b at p
WordAt(s, p, word) ==
  StartsAt(s, p, word) /\ WordBoundary(s, p) /\ WordBoundary(s, p + Len(word))

\* \bword at p
WordStartAt(s, p, word) == StartsAt(s, p, word) /\ WordBoundary(s, p)

\* .* can run from p to q: no line break in between
SameLine(s, p, q) == \A k \in p..(q - 1) : s[k] # "\n"

\* the characters that end the right-hand side [^;\n]+? of a declaration
RhsStop == {"", ";", "\n"}

\* /\blocal\s+([a-zA-Z_][a-zA-Z0-9_]*)\s*=\s*([^;\n]+?)(?=\n|;|$)/ tried at p;
\* \s* after "=" gives back what it took until the right-hand side can start
DetectLocalAt(code, p) ==
  IF WordBoundary(code, p) /\ StartsAt(code, p, <<"l","o","c","a","l">>) /\ At(code, p + 5) \in SpaceCh
  THEN LET q == SkipClass(code, p + 5, SpaceCh)
           e == IdentEnd(code, q)
           t == SkipClass(code, e, SpaceCh)
           w == SkipClass(code, t + 1, SpaceCh)
           starts == {s \in (t + 1)..w : At(code, s) \notin RhsStop}
       IN  IF e = 0 \/ At(code, t) # "=" \/ starts = {} THEN NoMatch
           ELSE LET s == CHOOSE s \in starts : \A u \in starts : u <= s
                    x == First({r \in s..(Len(code) + 1) : At(code, r) \in RhsStop})
                IN  [ok |-> TRUE, varName |-> Slice(code, q, e - 1),
                     rhs |-> Trim(Slice(code, s, x - 1)), lastIndex |-> x]
  ELSE NoMatch

\* word\s*\(\s*["']([^"']+)["'] tried at p, followed by \s*\) when closed is
\* true: the captured text, <<>> when no match
QuotedCallArgAt(s, p, word, closed) ==
  LET a == SkipClass(s, p + Len(word), SpaceCh)
      b == SkipClass(s, a + 1, SpaceCh)
      e == SkipUnquoted(s, b + 1)
  IN  IF /\ StartsAt(s, p, word)
         /\ At(s, a) = "("
         /\ At(s, b) \in QuoteCh
         /\ e > b + 1
         /\ At(s, e) \in QuoteCh
         /\ (closed => At(s, SkipClass(s, e + 1, SpaceCh)) = ")")
      THEN Slice(s, b + 1, e - 1)
      ELSE <<>>

\* the leftmost match of the expression above
QuotedCallArg(s, word, closed) ==
  LET at == First({p \in 1..Len(s) : QuotedCallArgAt(s, p, word, closed) # <<>>})
  IN  IF at = 0 THEN <<>> ELSE QuotedCallArgAt(s, at, word, closed)

\* /(game|workspace|script)\.([A-Za-z_]\w*)/ tried at p: the second group
RootMemberAt(s, p) ==
  LET d == IF StartsAt(s, p, <<"g","a","m","e",".">>) THEN p + 5
           ELSE IF StartsAt(s, p, <<"w","o","r","k","s","p","a","c","e",".">>) THEN p + 10
           ELSE IF StartsAt(s, p, <<"s","c","r","i","p","t",".">>) THEN p + 7
           ELSE 0
  IN  IF d # 0 /\ IdentEnd(s, d) # 0 THEN Slice(s, d, IdentEnd(s, d) - 1) ELSE <<>>

RootMember(s) ==
  LET at == First({p \in 1..Len(s) : RootMemberAt(s, p) # <<>>})
  IN  IF at = 0 THEN <<>> ELSE RootMemberAt(s, at)

\* /:\w+\s*\([^)]*\)\s*:/
HasChainedCall(s) ==
  \E p \in 1..Len(s) :
     /\ s[p] = ":"
     /\ LET e == SkipClass(s, p + 1, WordCh)
            a == SkipClass(s, e, SpaceCh)
            c == IndexFrom(s, <<")">>, a + 1)
        IN  /\ e > p + 1
            /\ At(s, a) = "("
            /\ c # 0
            /\ At(s, SkipClass(s, c + 1, SpaceCh)) = ":"

\* /\w+\s*\(/
HasCall(s) ==
  \E p \in 1..Len(s) : s[p] \in WordCh /\ At(s, SkipClass(s, p + 1, SpaceCh)) = "("

MathCh == Digit \cup SpaceCh \cup {"+", "-", "*", "/", "%", "(", ")"}

\* /^[\d\s+\-*/%()]+$/
IsMathOnly(s) == Len(s) > 0 /\ \A k \in 1..Len(s) : s[k] \in MathCh

\* extractSemanticName(rhs, fullCode): the rules in the order of the source
extractSemanticName(rhs) ==
  IF QuotedCallArg(rhs, <<"G","e","t","S","e","r","v","i","c","e">>, TRUE) # <<>>
    THEN QuotedCallArg(rhs, <<"G","e","t","S","e","r","v","i","c","e">>, TRUE)
  ELSE IF QuotedCallArg(rhs, <<"I","n","s","t","a","n","c","e",".","n","e","w">>, FALSE) # <<>>
    THEN QuotedCallArg(rhs, <<"I","n","s","t","a","n","c","e",".","n","e","w">>, FALSE)
  ELSE IF RootMember(rhs) # <<>> THEN RootMember(rhs)
  ELSE IF HasChainedCall(rhs) THEN <<"R","e","s","u","l","t">>
  ELSE IF At(rhs, 1) = "{" THEN <<"T","a","b","l","e">>
  ELSE IF Contains(rhs, <<"f","u","n","c","t","i","o","n">>) \/ HasCall(rhs) THEN <<"F","u","n","c","t","i","o","n">>
  ELSE IF Contains(rhs, <<"L","o","c","a","l","P","l","a","y","e","r">>) THEN <<"L","o","c","a","l","P","l","a","y","e","r">>
  ELSE IF Contains(rhs, <<"w","o","r","k","s","p","a","c","e">>) THEN <<"W","o","r","k","s","p","a","c","e">>
  ELSE IF IsMathOnly(rhs) THEN <<"C","a","l","c","u","l","a","t","i","o","n">>
  ELSE IF At(rhs, 1) \in QuoteCh THEN <<"T","e","x","t">>
  ELSE IF IsNumber(rhs) THEN <<"N","u","m","b","e","r">>
  ELSE <<"V","a","r">>

\* one of ==, ~=, >=, <=, >, < at r
ComparatorAt(s, r) ==
  StartsAt(s, r, <<"=","=">>) \/ StartsAt(s, r, <<"~","=">>) \/ At(s, r) \in {">", "<"}

\* /\breturn\s+(true|false|nil|[^;,\n]*(?:==|~=|>=|<=|>|<))/
ReturnsBoolean(body) ==
  \E p \in 1..Len(body) :
     /\ WordStartAt(body, p, <<"r","e","t","u","r","n">>)
     /\ At(body, p + 6) \in SpaceCh
     /\ LET w == SkipClass(body, p + 6, SpaceCh)
        IN  \/ StartsAt(body, w, <<"t","r","u","e">>)
            \/ StartsAt(body, w, <<"f","a","l","s","e">>)
            \/ StartsAt(body, w, <<"n","i","l">>)
            \/ \E q \in (p + 7)..w : \E r \in q..Len(body) :
                  /\ ComparatorAt(body, r)
                  /\ \A k \in q..(r - 1) : body[k] \notin {";", ",", "\n"}

\* /\bif\b.*\bthen\b.*\breturn/
HasIfThenReturn(body) ==
  \E p \in 1..Len(body) :
     /\ WordAt(body, p, <<"i","f">>)
     /\ \E q \in (p + 2)..Len(body) :
           /\ WordAt(body, q, <<"t","h","e","n">>)
           /\ \E r \in (q + 4)..Len(body) :
                 WordStartAt(body, r, <<"r","e","t","u","r","n">>) /\ SameLine(body, p, r)

\* /\b(Destroy|Remove|Delete|Dispose|Clear)\s*\(/
HasDestroyCall(body) ==
  \E p \in 1..Len(body) : \E w \in {<<"D","e","s","t","r","o","y">>, <<"R","e","m","o","v","e">>, <<"D","e","l","e","t","e">>, <<"D","i","s","p","o","s","e">>, <<"C","l","e","a","r">>} :
     /\ WordStartAt(body, p, w)
     /\ At(body, SkipClass(body, p + Len(w), SpaceCh)) = "("

\* /\bfor.*\bin.*\bdo\b.*Destroy/
HasForDestroy(body) ==
  \E p \in 1..Len(body) :
     /\ WordStartAt(body, p, <<"f","o","r">>)
     /\ \E q \in (p + 3)..Len(body) :
           /\ WordStartAt(body, q, <<"i","n">>)
           /\ \E r \in (q + 2)..Len(body) :
                 /\ WordAt(body, r, <<"d","o">>)
                 /\ \E t \in (r + 2)..Len(body) :
                       StartsAt(body, t, <<"D","e","s","t","r","o","y">>) /\ SameLine(body, p, t)

\* word\s*\( somewhere in body; the word after \b when bounded is true
HasCallOf(body, word, bounded) ==
  \E p \in 1..Len(body) :
     /\ StartsAt(body, p, word)
     /\ (bounded => WordBoundary(body, p))
     /\ At(body, SkipClass(body, p + Len(word), SpaceCh)) = "("

\* /\.Parent\s*=\s*\w+|setParent/
HasParentAssign(body) ==
  \/ Contains(body, <<"s","e","t","P","a","r","e","n","t">>)
  \/ \E p \in 1..Len(body) :
        /\ StartsAt(body, p, <<".","P","a","r","e","n","t">>)
        /\ LET t == SkipClass(body, p + 7, SpaceCh)
           IN  At(body, t) = "=" /\ At(body, SkipClass(body, t + 1, SpaceCh)) \in WordCh

\* one of the words occurs in body
ContainsAny(body, words) == \E w \in words : Contains(body, w)

\* /\bfirst|rest.../: first after a word boundary, or any of the rest anywhere
ContainsWordStartOrAny(body, first, rest) ==
  \/ \E p \in 1..Len(body) : WordStartAt(body, p, first)
  \/ ContainsAny(body, rest)

\* /\bfor\b.*\bin\b.*\blast\b?/ on one line; the last word closed by \b when
\* closed is true
HasForIn(body, last, closed) ==
  \E p \in 1..Len(body) :
     /\ WordAt(body, p, <<"f","o","r">>)
     /\ \E q \in (p + 3)..Len(body) :
           /\ WordAt(body, q, <<"i","n">>)
           /\ \E r \in (q + 2)..Len(body) :
                 /\ WordStartAt(body, r, last)
                 /\ (closed => WordBoundary(body, r + Len(last)))
                 /\ SameLine(body, p, r)

\* /\breturn\s+\w+\.\w+|\breturn\s+[\w\[\]\.\'\"]+/
ReturnsValue(body) ==
  \E p \in 1..Len(body) :
     /\ WordStartAt(body, p, <<"r","e","t","u","r","n">>)
     /\ At(body, p + 6) \in SpaceCh
     /\ At(body, SkipClass(body, p + 6, SpaceCh)) \in WordCh \cup {"[", "]", ".", "'", "\""}

\* /\.\w+\s*=\s*\w+|setProperty|setAttribute/i
HasPropertyAssign(body) ==
  \/ ContainsAny(toLowerCase(body), {<<"s","e","t","p","r","o","p","e","r","t","y">>, <<"s","e","t","a","t","t","r","i","b","u","t","e">>})
  \/ \E p \in 1..Len(body) :
        /\ body[p] = "."
        /\ LET e == SkipClass(body, p + 1, WordCh)
               t == SkipClass(body, e, SpaceCh)
           IN  /\ e > p + 1
               /\ At(body, t) = "="
               /\ At(body, SkipClass(body, t + 1, SpaceCh)) \in WordCh

\* /[\+\-\*\/\%]/
HasOperator(body) == \E k \in 1..Len(body) : body[k] \in {"+", "-", "*", "/", "%"}

\* analyzeFunction(funcName, args, body): the rules in the order of the source
analyzeFunction(args, body) ==
  LET low == toLowerCase(body)
  IN  IF ReturnsBoolean(body) THEN <<"C","h","e","c","k">>
      ELSE IF HasIfThenReturn(body) /\ Contains(body, <<"r","e","t","u","r","n">>) THEN <<"C","h","e","c","k">>
      ELSE IF HasDestroyCall(body) THEN <<"R","e","m","o","v","e">>
      ELSE IF HasForDestroy(body) THEN <<"R","e","m","o","v","e">>
      ELSE IF HasCallOf(body, <<"I","n","s","t","a","n","c","e",".","n","e","w">>, TRUE) \/ HasCallOf(body, <<"t","a","b","l","e",".","n","e","w">>, FALSE)
        THEN <<"C","r","e","a","t","e">>
      ELSE IF HasParentAssign(body) THEN <<"C","r","e","a","t","e">>
      ELSE IF At(body, 1) = "{" \/ Contains(body, <<"r","e","t","u","r","n"," ","{">>) THEN <<"C","r","e","a","t","e">>
      ELSE IF HasCallOf(body, <<".","C","o","n","n","e","c","t">>, FALSE) \/ HasCallOf(body, <<":","C","o","n","n","e","c","t">>, FALSE)
        THEN <<"H","a","n","d","l","e">>
      ELSE IF ContainsAny(body, {<<"C","h","i","l","d","A","d","d","e","d">>, <<"C","h","i","l","d","R","e","m","o","v","e","d">>, <<"C","h","a","n","g","e","d">>,
                                 <<"M","o","u","s","e","C","l","i","c","k">>, <<"T","o","u","c","h","e","d">>})
        THEN <<"H","a","n","d","l","e">>
      ELSE IF \/ \E p \in 1..Len(body) : WordAt(body, p, <<"G","e","t","C","h","i","l","d","r","e","n">>)
              \/ ContainsAny(body, {<<"G","e","t","D","e","s","c","e","n","d","a","n","t","s">>, <<"p","a","i","r","s">>, <<"i","p","a","i","r","s">>})
        THEN <<"I","t","e","r","a","t","e">>
      ELSE IF HasForIn(body, <<"d","o">>, TRUE) THEN <<"I","t","e","r","a","t","e">>
      ELSE IF HasForIn(body, <<"i","f">>, TRUE) THEN <<"F","i","l","t","e","r">>
      ELSE IF ContainsWordStartOrAny(low, <<"f","i","n","d">>, {<<"s","e","a","r","c","h">>, <<"m","a","t","c","h">>, <<"f","i","l","t","e","r">>})
        THEN <<"F","i","l","t","e","r">>
      ELSE IF ContainsWordStartOrAny(low, <<"u","p","d","a","t","e">>, {<<"r","e","f","r","e","s","h">>, <<"r","e","l","o","a","d">>, <<"s","y","n","c">>})
        THEN <<"U","p","d","a","t","e">>
      ELSE IF ContainsWordStartOrAny(low, <<"r","e","n","d","e","r">>,
                                     {<<"d","i","s","p","l","a","y">>, <<"d","r","a","w">>, <<"r","e","d","r","a","w">>, <<"c","o","m","p","o","s","e">>})
        THEN <<"R","e","n","d","e","r">>
      ELSE IF ContainsWordStartOrAny(low, <<"i","n","i","t">>,
                                     {<<"s","e","t","u","p">>, <<"c","o","n","f","i","g","u","r","e">>, <<"c","o","n","f","i","g">>, <<"i","n","i","t","i","a","l","i","z","e">>})
        THEN <<"I","n","i","t">>
      ELSE IF ReturnsValue(body) /\ ~Contains(body, <<"=">>) THEN <<"G","e","t">>
      ELSE IF HasPropertyAssign(body) /\ ~Contains(body, <<"l","o","c","a","l">>) THEN <<"S","e","t">>
      ELSE IF ContainsWordStartOrAny(low, <<"s","p","l","i","t">>,
                                     {<<"m","a","t","c","h">>, <<"p","a","r","s","e">>, <<"p","r","o","c","e","s","s">>, <<"d","e","c","o","d","e">>, <<"e","n","c","o","d","e">>})
        THEN <<"P","a","r","s","e">>
      ELSE IF HasOperator(body) /\ ~Contains(body, <<"p","r","i","n","t">>) THEN <<"C","a","l","c","u","l","a","t","e">>
      ELSE IF Len(Trim(args)) > 0 THEN <<"P","r","o","c","e","s","s">>
      ELSE <<"H","a","n","d","l","e","r">>

\* const typeCounters = {}: the counters by name; 0 stands for NaN
NoCounters == [x \in {} |-> 0]

\* String(n) of a counter
CounterText(c) == IF c = 0 THEN <<"N","a","N">> ELSE ToDigits(c)

\* the duplicate count of a detected name: the counters after it and the final
\* name.  A name inherited from Object.prototype is not undefined in the plain
\* object, so its first use already increments: a function plus one is NaN;
\* the write to __proto__ is dropped and the read gives the prototype object.
CountName(tc, name) ==
  IF name \in DOMAIN tc THEN
    LET c == IF tc[name] = 0 THEN 0 ELSE tc[name] + 1
    IN  [tc |-> [tc EXCEPT ![name] = c], finalName |-> name \o CounterText(c)]
  ELSE IF name = <<"_","_","p","r","o","t","o","_","_">> THEN
    [tc |-> tc, finalName |-> name \o <<"[","o","b","j","e","c","t"," ","O","b","j","e","c","t","]">>]
  ELSE IF name \in ObjectPrototypeKeys THEN
    [tc |-> tc @@ (name :> 0), finalName |-> name \o <<"N","a","N">>]
  ELSE [tc |-> tc @@ (name :> 1), finalName |-> name]

\* variables.push({ old, detected }) after counting
PushDetected(st, old, semanticName) ==
  LET r == CountName(st.tc, semanticName)
  IN  [tc |-> r.tc,
       variables |-> Append(st.variables, [old |-> old, detected |-> r.finalName])]

\* while ((m = regex.exec(code)) !== null) over the local assignments
RECURSIVE DetectLocalsFrom(_, _, _)
DetectLocalsFrom(code, lastIndex, st) ==
  LET at == First({p \in lastIndex..Len(code) : DetectLocalAt(code, p).ok})
      m  == DetectLocalAt(code, at)
  IN  IF at = 0 THEN st
      ELSE DetectLocalsFrom(code, m.lastIndex,
                            PushDetected(st, m.varName, extractSemanticName(m.rhs)))

\* the first \bend\b at or after w, or the end of the input
BodyEnd(code, w) ==
  First({b \in w..(Len(code) + 1) : b > Len(code) \/ WordAt(code, b, <<"e","n","d">>)})

\* /\blocal\s+function\s+(name)\s*\(([^)]*)\)[\s\n]*([\s\S]*?)(?=\bend\b|$)/ tried at p
DetectFuncAt(code, p) ==
  IF WordBoundary(code, p) /\ StartsAt(code, p, <<"l","o","c","a","l">>) /\ At(code, p + 5) \in SpaceCh
  THEN LET f == SkipClass(code, p + 5, SpaceCh)
           q == SkipClass(code, f + 8, SpaceCh)
           e == IdentEnd(code, q)
           a == SkipClass(code, e, SpaceCh)
           c == IndexFrom(code, <<")">>, a + 1)
           w == SkipClass(code, c + 1, SpaceCh)
       IN  IF /\ StartsAt(code, f, <<"f","u","n","c","t","i","o","n">>)
              /\ At(code, f + 8) \in SpaceCh
              /\ e # 0
              /\ At(code, a) = "("
              /\ c # 0
           THEN [ok |-> TRUE, funcName |-> Slice(code, q, e - 1),
                 args |-> Slice(code, a + 1, c - 1),
                 body |-> Slice(code, w, BodyEnd(code, w) - 1),
                 lastIndex |-> BodyEnd(code, w)]
           ELSE NoMatch
  ELSE NoMatch

\* while ((fm = funcRegex.exec(code)) !== null) over the local functions
RECURSIVE DetectFuncsFrom(_, _, _)
DetectFuncsFrom(code, lastIndex, st) ==
  LET at == First({p \in lastIndex..Len(code) : DetectFuncAt(code, p).ok})
      fm == DetectFuncAt(code, at)
  IN  IF at = 0 THEN st
      ELSE DetectFuncsFrom(code, fm.lastIndex,
                           PushDetected(st, fm.funcName, analyzeFunction(fm.args, fm.body)))

\* parseInt of a run of digits
RECURSIVE parseInt(_)
parseInt(ds) ==
  IF Len(ds) = 0 THEN 0
  ELSE 10 * parseInt(SubSeq(ds, 1, Len(ds) - 1))
         + (CHOOSE d \in 0..9 : DigitChar(d) = ds[Len(ds)])

\* String(result) of the switch over the operator
SolveOp(numA, op, numB) ==
  IF op = "+" THEN ToDigits(numA + numB)
  ELSE IF op = "-" THEN (IF numA >= numB THEN ToDigits(numA - numB)
                         ELSE <<"-">> \o ToDigits(numB - numA))
  ELSE IF op = "*" THEN ToDigits(numA * numB)
  ELSE IF op = "/" THEN (IF numB # 0 THEN ToDigits(numA \div numB)
                         ELSE IF numA = 0 THEN <<"N","a","N">> ELSE <<"I","n","f","i","n","i","t","y">>)
  ELSE IF numB # 0 THEN ToDigits(numA % numB) ELSE <<"N","a","N">>

\* /(\d+)\s*([+\-*/%])\s*(\d+)/ tried at p
MathAt(code, p) ==
  LET ae == SkipClass(code, p, Digit)
      o  == SkipClass(code, ae, SpaceCh)
      b  == SkipClass(code, o + 1, SpaceCh)
      be == SkipClass(code, b, Digit)
  IN  IF At(code, p) \in Digit /\ At(code, o) \in {"+", "-", "*", "/", "%"} /\ be > b
      THEN [ok |-> TRUE, a |-> Slice(code, p, ae - 1), op |-> code[o],
            b |-> Slice(code, b, be - 1), lastIndex |-> be]
      ELSE NoMatch

\* solvedCode.replace(mathRegex, ...) from position i on
RECURSIVE SolveFrom(_, _)
SolveFrom(code, i) ==
  LET at == First({p \in i..Len(code) : MathAt(code, p).ok})
      m  == MathAt(code, at)
  IN  IF at = 0 THEN Slice(code, i, Len(code))
      ELSE Slice(code, i, at - 1)
             \o SolveOp(parseInt(m.a), m.op, parseInt(m.b))
             \o SolveFrom(code, m.lastIndex)

\* the body of the handler's try block for a string: the pairs and the solved code
detectVars(code) ==
  LET s1 == DetectLocalsFrom(code, 1, [tc |-> NoCounters, variables |-> <<>>])
      s2 == DetectFuncsFrom(code, 1, s1)
  IN  [variables |-> s2.variables, solvedCode |-> SolveFrom(code, 1)]

\* ------------------------------------------------------------------------
\* POST /beautify and POST /minify: the post-processing of the formatter's
\* result (src/server/routes.ts)
\* ------------------------------------------------------------------------

\* the last position of ps, 0 for the empty set
Last(ps) == IF ps = {} THEN 0 ELSE CHOOSE p \in ps : \A q \in ps : q <= p

\* /\n\s*\n/ tried at p: the position of its last character, 0 when no match
BlankRunEnd(s, p) ==
  IF At(s, p) # "\n" THEN 0
  ELSE Last({k \in (p + 1)..(SkipClass(s, p + 1, SpaceCh) - 1) : s[k] = "\n"})

\* result.replace(/\n\s*\n/g, '\n') from position i on
RECURSIVE RemoveBlankLinesFrom(_, _)
RemoveBlankLinesFrom(s, i) ==
  LET at == First({p \in i..Len(s) : BlankRunEnd(s, p) # 0})
  IN  IF at = 0 THEN Slice(s, i, Len(s))
      ELSE Slice(s, i, at - 1) \o <<"\n">> \o RemoveBlankLinesFrom(s, BlankRunEnd(s, at) + 1)

removeBlankLines(s) == RemoveBlankLinesFrom(s, 1)

\* result.replace(/'/g, '"')
normalizeQuotes(s) == [i \in 1..Len(s) |-> IF s[i] = "'" THEN "\"" ELSE s[i]]

\* the characters by code unit, lowest first
CharOrder ==
  << "\t", "\n", "\f", "\r", " ", "!", "\"", "#", "$", "%", "&", "'", "(",
     ")", "*", "+", ",", "-", ".", "/", "0", "1", "2", "3", "4", "5", "6",
     "7", "8", "9", ":", ";", "<", "=", ">", "?", "@", "A", "B", "C", "D",
     "E", "F", "G", "H", "I", "J", "K", "L", "M", "N", "O", "P", "Q", "R",
     "S", "T", "U", "V", "W", "X", "Y", "Z", "[", "\\", "]", "^", "_",
     "a", "b", "c", "d", "e", "f", "g", "h", "i", "j", "k", "l", "m", "n",
     "o", "p", "q", "r", "s", "t", "u", "v", "w", "x", "y", "z", "{", "|",
     "}", "~" >>

CharCode(c) == CHOOSE i \in 1..Len(CharOrder) : CharOrder[i] = c

\* a < b as Array.prototype.sort compares strings: by code unit, a prefix first
RECURSIVE StringLess(_, _)
StringLess(a, b) ==
  IF Len(b) = 0 THEN FALSE
  ELSE IF Len(a) = 0 THEN TRUE
  ELSE IF a[1] # b[1] THEN CharCode(a[1]) < CharCode(b[1])
  ELSE StringLess(Tail(a), Tail(b))

\* x put into the sorted sequence ss, after its equals
InsertSorted(ss, x) ==
  LET k == First({i \in 1..(Len(ss) + 1) : i > Len(ss) \/ StringLess(x, ss[i])})
  IN  SubSeq(ss, 1, k - 1) \o <<x>> \o SubSeq(ss, k, Len(ss))

\* fields.sort()
RECURSIVE SortStrings(_)
SortStrings(ss) ==
  IF Len(ss) = 0 THEN <<>>
  ELSE InsertSorted(SortStrings(SubSeq(ss, 1, Len(ss) - 1)), ss[Len(ss)])

\* '{ ' + match.split(',').map((f) => f.trim()).sort().join(', ') + ' }'
SortedFields(match) ==
  LET fields == SplitOn(match, ",")
  IN  <<"{"," ">> \o JoinWith(SortStrings([i \in 1..Len(fields) |-> Trim(fields[i])]), <<","," ">>) \o <<" ","}">>

\* /\{[\s\S]*?\}/ tried at p: the position of the closing brace, 0 when no match
TableEnd(s, p) == IF At(s, p) = "{" THEN IndexFrom(s, <<"}">>, p + 1) ELSE 0

\* code.replace(/\{[\s\S]*?\}/g, ...) from position i on
RECURSIVE SortTablesFrom(_, _)
SortTablesFrom(s, i) ==
  LET at == First({p \in i..Len(s) : TableEnd(s, p) # 0})
  IN  IF at = 0 THEN Slice(s, i, Len(s))
      ELSE Slice(s, i, at - 1) \o SortedFields(Slice(s, at, TableEnd(s, at)))
             \o SortTablesFrom(s, TableEnd(s, at) + 1)

sortTableFields(code) == SortTablesFrom(code, 1)

\* result.replace(/\s+/g, ' ') from position i on
RECURSIVE CollapseSpaceFrom(_, _)
CollapseSpaceFrom(s, i) ==
  LET at == First({p \in i..Len(s) : s[p] \in SpaceCh})
  IN  IF at = 0 THEN Slice(s, i, Len(s))
      ELSE Slice(s, i, at - 1) \o <<" ">> \o CollapseSpaceFrom(s, SkipClass(s, at, SpaceCh))

\* result.replace(/\s+/g, ' ').trim()
removeWhitespace(s) == Trim(CollapseSpaceFrom(s, 1))

\* /--\[\[[\s\S]*?\]\]--|--[^\n]*/ tried at p: the end (exclusive), 0 when no match
CommentEnd(s, p) ==
  IF ~StartsAt(s, p, <<"-","-">>) THEN 0
  ELSE IF StartsAt(s, p, <<"-","-","[","[">>) /\ IndexFrom(s, <<"]","]","-","-">>, p + 4) # 0
       THEN IndexFrom(s, <<"]","]","-","-">>, p + 4) + 4
  ELSE ScanLineEnd(s, p + 2)

\* result.replace(/--\[\[[\s\S]*?\]\]--|--[^\n]*/g, '') from position i on
RECURSIVE RemoveCommentsFrom(_, _)
RemoveCommentsFrom(s, i) ==
  LET at == First({p \in i..Len(s) : CommentEnd(s, p) # 0})
  IN  IF at = 0 THEN Slice(s, i, Len(s))
      ELSE Slice(s, i, at - 1) \o RemoveCommentsFrom(s, CommentEnd(s, at))

removeComments(s) == RemoveCommentsFrom(s, 1)

\* /(\d+)\.0+([^\d])/ tried at p: the groups and the end (exclusive)
NumberFormatAt(s, p) ==
  LET e == SkipClass(s, p, Digit)
      z == SkipClass(s, e + 1, {"0"})
  IN  IF /\ At(s, p) \in Digit
         /\ At(s, e) = "."
         /\ z > e + 1
         /\ At(s, z) \notin Digit \cup {""}
      THEN [ok |-> TRUE, text |-> Slice(s, p, e - 1) \o <<s[z]>>, lastIndex |-> z + 1]
      ELSE NoMatch

\* code.replace(/(\d+)\.0+([^\d])/g, '$1$2') from position i on
RECURSIVE ConvertNumbersFrom(_, _)
ConvertNumbersFrom(s, i) ==
  LET at == First({p \in i..Len(s) : NumberFormatAt(s, p).ok})
      m  == NumberFormatAt(s, at)
  IN  IF at = 0 THEN Slice(s, i, Len(s))
      ELSE Slice(s, i, at - 1) \o m.text \o ConvertNumbersFrom(s, m.lastIndex)

convertNumberFormats(code) == ConvertNumbersFrom(code, 1)

\* /"[^"]*"|'[^']*'/ tried at p: the position of the closing quote, 0 when no match
StringEnd(s, p) == IF At(s, p) \in QuoteCh THEN IndexFrom(s, <<s[p]>>, p + 1) ELSE 0

\* the name of a string in stringMap (the strings in the order they were first
\* seen): s followed by its index
StringName(stringMap, match) ==
  <<"s">> \o ToDigits((CHOOSE k \in 1..Len(stringMap) : stringMap[k] = match) - 1)

\* code.replace(/"[^"]*"|'[^']*'/g, ...) from position i on
RECURSIVE CompressFrom(_, _, _)
CompressFrom(s, i, stringMap) ==
  LET at    == First({p \in i..Len(s) : StringEnd(s, p) # 0})
      match == Slice(s, at, StringEnd(s, at))
      seen  == IF InSeq(match, stringMap) THEN stringMap ELSE Append(stringMap, match)
  IN  IF at = 0 THEN Slice(s, i, Len(s))
      ELSE Slice(s, i, at - 1) \o StringName(seen, match)
             \o CompressFrom(s, StringEnd(s, at) + 1, seen)

compressStrings(code) == CompressFrom(code, 1, <<>>)

\* ------------------------------------------------------------------------
\* Requests of the route handlers (src/server/routes.ts)
\* ------------------------------------------------------------------------

\* A JSON value of the request body is a record of its type and its text:
\* the characters of a string, the literal of a number or a boolean, and
\* String(value) of an array or an object.

\* if (!code) lets the value through
Truthy(v) ==
  IF v.type = "string" THEN v.text # <<>>
  ELSE IF v.type = "number" THEN v.text # <<"0">>
  ELSE IF v.type = "boolean" THEN v.text = <<"t","r","u","e">>
  ELSE v.type \in {"array", "object"}

\* the sources a request carries
RouteSources ==
  { <<"l","o","c","a","l"," ","a"," ","="," ","5">>,
    <<"p","r","i","n","t","(","a",")">>,
    <<"l","o","c","a","l"," ","v"," ","="," ","g","a","m","e",":","G","e","t","S","e","r","v","i","c","e","(","\"","P","l","a","y","e","r","s","\"",")">>,
    <<"l","o","c","a","l"," ","x"," ","="," ","1"," ","+"," ","2">>,
    <<"l","o","c","a","l"," ","f","u","n","c","t","i","o","n"," ","c","h","e","c","k","(","x",")"," ","r","e","t","u","r","n"," ","x"," ",">"," ","0"," ","e","n","d">>,
    <<"v","a","l","u","e"," ","="," ","v">>,
    <<" "," "," ">>,
    <<"l","o","c","a","l"," ","y"," ","="," ","1"," ","+"," ","2"," ","*"," ","3">>,
    <<"l","o","c","a","l"," ","z"," ","="," ","7"," ","/"," ","2">>,
    <<"l","o","c","a","l"," ","k"," ","="," ","x","1"," ","+"," ","2">>,
    <<"l","o","c","a","l"," ","q"," ","="," ","1"," ","/"," ","0">>,
    <<"l","o","c","a","l"," ","n"," ","="," ","6"," ","/"," ","2"," ","+"," ","4"," ","%"," ","3">> }

\* the values of the field code of a request body
CodeValues ==
  { [type |-> "undefined", text |-> <<>>],
    [type |-> "null",      text |-> <<>>],
    [type |-> "number",    text |-> <<"0">>],
    [type |-> "number",    text |-> <<"5">>],
    [type |-> "boolean",   text |-> <<"f","a","l","s","e">>],
    [type |-> "boolean",   text |-> <<"t","r","u","e">>],
    [type |-> "array",     text |-> <<>>],
    [type |-> "object",    text |-> <<"[","o","b","j","e","c","t"," ","O","b","j","e","c","t","]">>],
    [type |-> "string",    text |-> <<>>] }
    \cup { [type |-> "string", text |-> t] : t \in RouteSources }

\* The field options of a request body: whether it is there, the flags that
\* are true, the flags that are false, and indentSize when it is there.
NoOptions ==
  [defined |-> FALSE, on |-> {}, off |-> {}, hasIndentSize |-> FALSE, indentSize |-> 0]

OptionValues ==
  { NoOptions,
    [defined |-> TRUE,
     on |-> {"removeBlankLines", "normalizeQuotes", "sortTableFields", "removeWhitespace",
             "removeComments", "convertNumberFormats", "compressStrings", "useTabs"},
     off |-> {"renameVariables"}, hasIndentSize |-> FALSE, indentSize |-> 0],
    [defined |-> TRUE, on |-> {"renameVariables", "renameGlobals", "solveMath"},
     off |-> {}, hasIndentSize |-> TRUE, indentSize |-> 4],
    [defined |-> TRUE, on |-> {}, off |-> {}, hasIndentSize |-> TRUE, indentSize |-> -1] }

Paths == {"/beautify", "/minify", "/api/detect-vars"}

Requests == [path : Paths, code : CodeValues, options : OptionValues]

\* options?.flag, as a condition
Flag(options, flag) == flag \in options.on

\* options?.flag ?? default
FlagOr(options, flag, default) ==
  IF flag \in options.on THEN TRUE ELSE IF flag \in options.off THEN FALSE ELSE default

\* ' '.repeat(count) throws a RangeError for a negative count
RepeatThrows(count) == count < 0

\* options?.useTabs ? '\t' : ' '.repeat(options?.indentSize ?? 2)
Indentation(options) ==
  IF Flag(options, "useTabs") THEN <<"\t">>
  ELSE [k \in 1..(IF options.hasIndentSize THEN options.indentSize ELSE 2) |-> " "]

IndentationThrows(options) ==
  ~Flag(options, "useTabs") /\ options.hasIndentSize /\ RepeatThrows(options.indentSize)

\* What the formatter (the package lua-format, not part of this repository)
\* does with a call is not known: it throws or returns some text.
FormatterTexts ==
  { <<"x"," ","="," ","{","c",","," ","'","b","'",","," ","a","}","\n","\n","\n","y"," ","="," ","'","q","'"," ","-","-"," ","c","\n","z"," ","="," ","1",".","0"," ">>,
    <<"l","o","c","a","l"," ","a"," ","="," ","5">> }

FormatterOutcomes(code) ==
  { [threw |-> TRUE, text |-> <<>>] }
    \cup { [threw |-> FALSE, text |-> t] : t \in FormatterTexts \cup {code.text} }

\* the options the handlers call the formatter with
BeautifyOptions(options) ==
  [RenameVariables |-> FlagOr(options, "renameVariables", FALSE),
   RenameGlobals   |-> FlagOr(options, "renameGlobals", FALSE),
   SolveMath       |-> FlagOr(options, "solveMath", FALSE),
   Indentation     |-> Indentation(options)]

MinifyOptions(options) ==
  [RenameVariables |-> FlagOr(options, "renameVariables", TRUE),
   RenameGlobals   |-> FlagOr(options, "renameGlobals", FALSE),
   SolveMath       |-> FlagOr(options, "solveMath", FALSE),
   Indentation     |-> <<>>]

\* the post-processing of /beautify
BeautifyPost(result, options) ==
  LET r1 == IF Flag(options, "removeBlankLines") THEN removeBlankLines(result) ELSE result
      r2 == IF Flag(options, "normalizeQuotes") THEN normalizeQuotes(r1) ELSE r1
  IN  IF Flag(options, "sortTableFields") THEN sortTableFields(r2) ELSE r2

\* the post-processing of /minify
MinifyPost(result, options) ==
  LET r1 == IF Flag(options, "removeWhitespace") THEN removeWhitespace(result) ELSE result
      r2 == IF Flag(options, "removeComments") THEN removeComments(r1) ELSE r1
      r3 == IF Flag(options, "convertNumberFormats") THEN convertNumberFormats(r2) ELSE r2
  IN  IF Flag(options, "compressStrings") THEN compressStrings(r3) ELSE r3

\* res.status(status).json({ error })
ErrorResponse(status, error) ==
  [status |-> status, error |-> error, result |-> <<>>, variables |-> <<>>,
   solvedCode |-> <<>>]

\* res.json({ result })
ResultResponse(result) ==
  [status |-> 200, error |-> <<>>, result |-> result, variables |-> <<>>,
   solvedCode |-> <<>>]

\* res.json({ variables, solvedCode })
DetectResponse(d) ==
  [status |-> 200, error |-> <<>>, result |-> <<>>, variables |-> d.variables,
   solvedCode |-> d.solvedCode]

\* the loop of detectAndRename in the client (src/client/src/pages/home.tsx):
\* result = result.replace(new RegExp(`\\b${v.old}\\b`, "g"), v.detected) for
\* each pair from index k on, one after the other
RECURSIVE ApplyDetected(_, _, _)
ApplyDetected(result, variables, k) ==
  IF k > Len(variables) THEN result
  ELSE ApplyDetected(
         replaceIdentifiersInSegment(
           result, << [old |-> variables[k].old, new |-> variables[k].detected] >>),
         variables, k + 1)


\* ------------------------------------------------------------------------
\* The renamers and the usage analysis of the client
\* (src/client/src/pages/home.tsx)
\* ------------------------------------------------------------------------

\* /^[a-zA-Z_][a-zA-Z0-9_]*$/.test(str)
isValidIdentifier(str) == IdentEnd(str, 1) = Len(str) + 1

commonKeywords ==
  { <<"l","o","c","a","l">>, <<"f","u","n","c","t","i","o","n">>, <<"r","e","t","u","r","n">>, <<"i","f">>, <<"t","h","e","n">>, <<"e","l","s","e">>, <<"e","n","d">>, <<"f","o","r">>,
    <<"w","h","i","l","e">>, <<"d","o">>, <<"b","r","e","a","k">>, <<"a","n","d">>, <<"o","r">>, <<"n","o","t">>, <<"n","i","l">>, <<"t","r","u","e">>, <<"f","a","l","s","e">>,
    <<"i","n">>, <<"t","a","b","l","e">>, <<"s","t","r","i","n","g">>, <<"m","a","t","h">>, <<"i","o">>, <<"o","s">>, <<"g","a","m","e">>, <<"s","c","r","i","p","t">>,
    <<"s","e","l","f">>, <<"t","h","i","s">>, <<"r","e","p","e","a","t">>, <<"u","n","t","i","l">>, <<"e","l","s","e","i","f">> }

\* keywords.includes(str.toLowerCase())
isCommonKeyword(str) == toLowerCase(str) \in commonKeywords

\* result.replace(new RegExp(`\\b${name}\\b`, "g"), by), for a name that is an
\* identifier
ReplaceWord(text, name, by) ==
  ReplaceFrom(text, 1, <<name>>, << [old |-> name, new |-> by] >>)

\* one turn of the loop of applySemanticRenames, on the entry
\* [boringName, semanticName]
SemanticTurn(result, boringName, semanticName) ==
  IF ~isValidIdentifier(boringName) \/ ~isValidIdentifier(semanticName) THEN result
  ELSE IF isCommonKeyword(boringName) \/ isCommonKeyword(semanticName) THEN result
  ELSE IF Len(boringName) < 1 THEN result
  ELSE ReplaceWord(result, boringName, semanticName)

\* varRegex.test(line) for a regular expression with the g flag: the search
\* starts at lastIndex; a match leaves lastIndex after it, a failure at 0
TestFrom(line, name, lastIndex) ==
  LET at == First({p \in (lastIndex + 1)..Len(line) : WordAt(line, p, name)})
  IN  IF lastIndex > Len(line) \/ at = 0 THEN [found |-> FALSE, lastIndex |-> 0]
      ELSE [found |-> TRUE, lastIndex |-> at - 1 + Len(name)]
\* ------------------------------------------------------------------------
\* Inputs
\* ------------------------------------------------------------------------

\* the most lines of an input source
MaxLines == 2

\* the most calls of smartRename in one run of the server
MaxCalls == 3

\* the longest segment handed to replaceIdentifiersInSegment on its own
MaxSegLen == 5

\* the lines an input source is made of
LinePool ==
  { <<"l","o","c","a","l"," ","a"," ","="," ","5">>,
    <<"p","r","i","n","t","(","a",")">>,
    <<"-","-"," ","c">>,
    <<"l","o","c","a","l"," ","a"," ","="," ","x",".","b">>,
    <<"l","o","c","a","l"," ","b"," ","="," ","5">>,
    <<"l","o","c","a","l"," ","a"," ","="," ","x",".","e","n","d">>,
    <<"l","o","c","a","l"," ","b"," ","="," ","x",".","_","e","n","d">>,
    <<"l","o","c","a","l"," ","a"," ","="," ","x",".","a","n","d">>,
    <<"l","o","c","a","l"," ","w"," ","="," ","g","a","m","e",".","w","o","r","k","s","p","a","c","e">>,
    <<"\"","_","_","M","A","S","K","_","S","T","R","_","1","_","_","\""," ","\"","b","\"">>,
    <<"l","o","c","a","l"," ","a"," ","="," ","g",".","P","-","-","c">>,
    <<"v","a","l","u","e","O","f",".","x"," ","="," ","1">>,
    <<"\"","a","b","c">>,
    <<"e","n","d">>,
    <<"l","o","c","a","l"," ","v"," ","="," ","g","a","m","e",":","G","e","t","S","e","r","v","i","c","e","(","\"","P","l","a","y","e","r","s","\"",")">>,
    <<"v","a","l","u","e"," ","="," ","v">>,
    <<"l","o","c","a","l"," ","v"," ","="," ","5">>,
    <<"l","o","c","a","l"," ","f","u","n","c","t","i","o","n"," ","f","(",")">>,
    <<"x",":","C","o","n","n","e","c","t","(","f",")">>,
    <<"l","o","c","a","l"," ","t"," ","="," ","I","n","s","t","a","n","c","e",".","n","e","w","(","\"","F","r","a","m","e","\"",")">>,
    <<"l","o","c","a","l"," ","f","u","n","c","t","i","o","n"," ","c","h","e","c","k","(","x",")"," ","r","e","t","u","r","n"," ","x"," ",">"," ","0"," ","e","n","d">>,
    <<"l","o","c","a","l"," ","v","a","l","u","e","O","f"," ","="," ","5">> }

Sources(pool, n) ==
  { JoinWith(ls, <<"\n">>) : ls \in UNION { [1..k -> pool] : k \in 0..n } }

\* the sources smartRename is called with
Inputs == Sources(LinePool, MaxLines)

\* the sources of a run of several calls
CallInputs ==
  { <<"l","o","c","a","l"," ","a"," ","="," ","5">>,
    <<"l","o","c","a","l"," ","b"," ","="," ","5","\n","p","r","i","n","t","(","b",")">>,
    <<"l","o","c","a","l"," ","a"," ","="," ","x",".","b"," ","-","-"," ","c">>,
    <<"v","a","l","u","e","O","f",".","x"," ","="," ","1">>,
    <<"l","o","c","a","l"," ","f","u","n","c","t","i","o","n"," ","f","(",")","\n","x",":","C","o","n","n","e","c","t","(","f",")","\n","e","n","d">> }

\* the characters of a segment checked on its own
SegAlphabet == {"v", "a", " ", "."}

SegInputs == UNION { [1..k -> SegAlphabet] : k \in 0..MaxSegLen }

\* the rename maps a segment is rewritten with
SegMaps ==
  { <<>>,
    << [old |-> <<"v">>, new |-> <<"P","l","a","y","e","r","s">>] >>,
    << [old |-> <<"v">>, new |-> <<"N","u","m","b","e","r">>], [old |-> <<"v","a">>, new |-> <<"V","a","l","u","e">>] >>,
    << [old |-> <<"a">>, new |-> <<"v">>], [old |-> <<"v">>, new |-> <<"N","u","m","b","e","r">>] >> }

\* the most fragments of a source the masker is run on turn by turn
MaxSpans == 3

\* the fragments those sources are made of: spans of each kind, closed and
\* open, code between them, and the pieces of strings with escapes
MaskFragments ==
  << <<"\"","a","\"">>, <<"[","[","x","]","]">>, <<"-","-","c">>, <<"\n">>, <<"z">>, <<"M","A","S","K","_","S","T","R","_","0","_","_">>, <<"'","\\">>, <<"-","-","[","[","y">>,
     <<"\"">>, <<"\\","\"">>, <<"\\","\\">>, <<"[","[","w">>, <<"]">> >>

\* the fragments of fs one after the other
RECURSIVE Concat(_)
Concat(fs) == IF Len(fs) = 0 THEN <<>> ELSE fs[1] \o Concat(Tail(fs))

MaskInputs ==
  { Concat([i \in DOMAIN f |-> MaskFragments[f[i]]]) :
      f \in UNION { [1..k -> 1..Len(MaskFragments)] : k \in 0..MaxSpans } }

\* the most operands of a right-hand side inferFromRHS is called with on its own
MaxOperands == 2

\* the operands of those right-hand sides
RhsOperands ==
  << <<"g","a","m","e",":","G","e","t","S","e","r","v","i","c","e","(","\"","P","l","a","y","e","r","s","\"",")">>, <<"I","n","s","t","a","n","c","e",".","n","e","w","(","\"","F","r","a","m","e","\"",")">>, <<"x",".","y">>,
     <<"V","e","c","t","o","r","3",".","n","e","w","(","1",")">>, <<"t","r","u","e">>, <<"5">>, <<"\"","s","\"">>, <<"a",":","b","(",")">> >>

InferInputs ==
  { JoinWith([i \in DOMAIN f |-> RhsOperands[f[i]]], <<" ","o","r"," ">>) :
      f \in UNION { [1..k -> 1..Len(RhsOperands)] : k \in 1..MaxOperands } }

\* the property hints those calls are made with
InferHints == { <<>>, << <<"S","i","z","e">> >>, << <<"N","a","m","e">>, <<"P","o","s","i","t","i","o","n">> >> }

\* the most entries of a mapping applySemanticRenames is called with
MaxEntries == 2

\* the entries of those mappings: chains (the new name of one is the old
\* name of another), a swap, keywords on either side, and a name that is no
\* identifier
EntryPool ==
  { [old |-> <<"a">>, new |-> <<"b">>], [old |-> <<"b">>, new |-> <<"c">>],
    [old |-> <<"b">>, new |-> <<"a">>], [old |-> <<"a">>, new |-> <<"P","l","a","y","e","r","s">>],
    [old |-> <<"e","n","d">>, new |-> <<"x">>], [old |-> <<"c">>, new |-> <<"E","n","d">>],
    [old |-> <<"c">>, new |-> <<"1","x">>] }

\* Object.entries(semantics): the entries in insertion order, no key twice
SemanticsValues ==
  { m \in UNION { [1..k -> EntryPool] : k \in 0..MaxEntries } :
      \A i, j \in DOMAIN m : i # j => m[i].old # m[j].old }

\* the codes applySemanticRenames is called with
MinifiedCodes == { <<"a"," ","b">>, <<"l","o","c","a","l"," ","a"," ","="," ","b"," ","+"," ","c">>, <<"a","b"," ","a",".","b">>, <<"e","n","d"," ","c">> }

\* the sources the client sends to /api/detect-vars before its loop
DetectSources ==
  { <<"l","o","c","a","l"," ","p"," ","="," ","g","a","m","e",":","G","e","t","S","e","r","v","i","c","e","(","\"","P","l","a","y","e","r","s","\"",")","\n","l","o","c","a","l"," ","P","l","a","y","e","r","s"," ","="," ","5","\n","p","r","i","n","t","(","p",","," ","P","l","a","y","e","r","s",")">>,
    <<"l","o","c","a","l"," ","a"," ","="," ","5","\n","p","r","i","n","t","(","a",")">>,
    <<"l","o","c","a","l"," ","a"," ","="," ","1"," ","+"," ","2","\n","l","o","c","a","l"," ","b"," ","="," ","a">>,
    <<"l","o","c","a","l"," ","v"," ","="," ","w","o","r","k","s","p","a","c","e",".","P","a","r","t","\n","l","o","c","a","l"," ","w"," ","="," ","v">> }

\* the most lines of a code analyzeVariableUsage is called with
MaxUsageLines == 3

\* the lines of those codes: the variable v at the start of a line, further
\* in, twice, inside another name, and not at all
UsageLinePool ==
  { <<"v"," ","="," ","1">>, <<" "," "," "," ","p","r","i","n","t","(","v",")">>, <<"x"," ","="," ","y">>, <<"v",".","x"," ","="," ","v">>, <<" "," ","l","o","c","a","l"," ","v","a">> }

UsageCodes == Sources(UsageLinePool, MaxUsageLines)

\* the most lines of a source whose rename map is checked for the order of
\* its passes
MaxBuildLines == 4

\* the lines of those sources: two function headers and their end, a local
\* and a global that get the same label, and a global named like the local
BuildLinePool ==
  { <<"f","u","n","c","t","i","o","n"," ","f","(",")">>, <<"f","u","n","c","t","i","o","n"," ","g","(",")">>, <<"e","n","d">>, <<"l","o","c","a","l"," ","a"," ","="," ","5">>, <<"v","a","l","u","e"," ","="," ","5">>,
    <<"a"," ","="," ","x",".","b">> }

BuildInputs == Sources(BuildLinePool, MaxBuildLines)

\* the most lines of a text the function loop of analyzeCode is run on line
\* by line
MaxScanLines == 4

\* the lines of those texts: headers, a header with its end on the same line,
\* block openers, ends alone and with other tokens, and a statement
ScanLinePool ==
  { <<"f","u","n","c","t","i","o","n"," ","f","(",")">>, <<"l","o","c","a","l"," ","f","u","n","c","t","i","o","n"," ","g","(","a",")">>, <<"e","n","d">>, <<"x"," ","="," ","1">>, <<"i","f"," ","x"," ","t","h","e","n">>,
    <<"f","u","n","c","t","i","o","n"," ","h","(",")"," ","e","n","d">>, <<"e","n","d",")">> }

\* code.split("\n") of the texts of up to MaxScanLines lines
ScanInputs ==
  { SplitOn(JoinWith(ls, <<"\n">>), "\n") :
      ls \in UNION { [1..k -> ScanLinePool] : k \in 0..MaxScanLines } }

\* ------------------------------------------------------------------------
\* State
\* ------------------------------------------------------------------------

VARIABLES
  src,        \* the argument of the running call of smartRename
  pc,         \* the step of smartRename the call is at
  maskData,   \* maskStringsAndComments(code)
  analysis,   \* analyzeCode(working)
  renameMap,  \* buildRenameMap(analysis, options)
  renamed,    \* applyRenamesMaskSafe(working, renameMap, maskData)
  result,     \* what smartRename returned
  history,    \* the calls that ended, in order: input and outcome
  seg,        \* the argument of replaceIdentifiersInSegment called on its own
  segMap,     \* its rename map
  segOut,     \* what it returned
  segPc,      \* whether it has run
  request,    \* the request a route handler was called with: path and body
  routePc,    \* whether the handler has answered
  responses,  \* what the handler sent with res.status(...).json(...)
  calls,      \* the calls of the formatter and the scans the handler made
  caught,     \* the error the handler's catch block caught, <<>> when none
  maskSrc,    \* the argument of a call of maskStringsAndComments run turn by turn
  maskI,      \* its read index i (1-based)
  maskOut,    \* its buffer out
  maskParts,  \* its table parts
  maskPc,     \* "loop" while the loop runs, then "masked", then "restored"
  restored,   \* restoreMasked of what it returned
  inferRhs,   \* the right-hand side inferFromRHS is called with on its own
  inferProps, \* its property hint
  inferred,   \* what it returned
  inferPc,    \* whether it has run
  lines,      \* code.split("\n") of an analyzeCode whose first loop runs line by line
  li,         \* the index of the line the loop is at (1-based)
  funcStack,  \* the functions whose header was seen and whose end was not
  functions,  \* the functions emitted so far
  scanPc,     \* "loop" while the loop runs, then "done"
  renFn,        \* the renamer that runs: applySemanticRenames or the loop of detectAndRename
  minifiedCode, \* the text it starts from
  semantics,    \* the entries it walks, in order
  entryAt,      \* the index of the entry the loop is at
  renResult,    \* its local result
  renPc,        \* "loop" while the loop runs, then "done"
  varName,      \* the first argument of analyzeVariableUsage
  usageLines,   \* code.split("\n")
  usageLi,      \* the index of the line its first loop is at
  lastIndex,    \* varRegex.lastIndex (0-based, as in the source)
  usageContext, \* the lines collected
  usagePc       \* "loop" while the first loop runs, then "collected"

vars == <<src, pc, maskData, analysis, renameMap, usedNames, renamed, result,
          history, seg, segMap, segOut, segPc,
          request, routePc, responses, calls, caught,
          maskSrc, maskI, maskOut, maskParts, maskPc, restored,
          inferRhs, inferProps, inferred, inferPc,
          lines, li, funcStack, functions, scanPc,
          renFn, minifiedCode, semantics, entryAt, renResult, renPc,
          varName, usageLines, usageLi, lastIndex, usageContext, usagePc>>

callVars == <<src, pc, maskData, analysis, renameMap, usedNames, renamed, result>>

segVars == <<seg, segMap, segOut, segPc>>

routeVars == <<request, routePc, responses, calls, caught>>

maskerVars == <<maskSrc, maskI, maskOut, maskParts, maskPc, restored>>

inferVars == <<inferRhs, inferProps, inferred, inferPc>>

scanVars == <<lines, li, funcStack, functions, scanPc>>

\* the state of the handlers and the functions that are not running
renVars == <<renFn, minifiedCode, semantics, entryAt, renResult, renPc>>

usageVars == <<varName, usageLines, usageLi, lastIndex, usageContext, usagePc>>

clientVars == <<renVars, usageVars>>

\* the state of the handlers and the functions that are not running
otherVars == <<routeVars, maskerVars, inferVars, scanVars, clientVars>>

\* ------------------------------------------------------------------------
\* States of a call
\* ------------------------------------------------------------------------

NoAnalysis ==
  [threw |-> FALSE, locals |-> <<>>, globals |-> <<>>, functions |-> <<>>,
   propertyUsages |-> EmptyUsages, lines |-> <<>>]

\* nothing computed yet
Blank ==
  /\ maskData = [masked |-> <<>>, parts |-> <<>>]
  /\ analysis = NoAnalysis
  /\ renameMap = <<>>
  /\ usedNames = {}
  /\ renamed = <<>>
  /\ result = <<>>

SegIdle == seg = <<>> /\ segMap = <<>> /\ segOut = <<>> /\ segPc = "idle"

NoRequest == [path |-> "", code |-> [type |-> "undefined", text |-> <<>>], options |-> NoOptions]

RouteIdle ==
  /\ request = NoRequest
  /\ routePc = "idle"
  /\ responses = <<>>
  /\ calls = <<>>
  /\ caught = <<>>

MaskerIdle ==
  /\ maskSrc = <<>>
  /\ maskI = 1
  /\ maskOut = <<>>
  /\ maskParts = <<>>
  /\ maskPc = "idle"
  /\ restored = <<>>

InferIdle == inferRhs = <<>> /\ inferProps = <<>> /\ inferred = <<>> /\ inferPc = "idle"

ScanIdle ==
  /\ lines = <<>>
  /\ li = 1
  /\ funcStack = <<>>
  /\ functions = <<>>
  /\ scanPc = "idle"

RenIdle ==
  /\ renFn = ""
  /\ minifiedCode = <<>>
  /\ semantics = <<>>
  /\ entryAt = 1
  /\ renResult = <<>>
  /\ renPc = "idle"

UsageIdle ==
  /\ varName = <<>>
  /\ usageLines = <<>>
  /\ usageLi = 1
  /\ lastIndex = 0
  /\ usageContext = <<>>
  /\ usagePc = "idle"

ClientIdle == RenIdle /\ UsageIdle

OthersIdle == RouteIdle /\ MaskerIdle /\ InferIdle /\ ScanIdle /\ ClientIdle

\* one call of smartRename on any input
Init ==
  /\ src \in Inputs
  /\ pc = "mask"
  /\ Blank
  /\ history = <<>>
  /\ SegIdle
  /\ OthersIdle

\* one call of smartRename on a source with several declarations
InitBuild ==
  /\ src \in BuildInputs
  /\ pc = "mask"
  /\ Blank
  /\ history = <<>>
  /\ SegIdle
  /\ OthersIdle

\* a server that has not been called yet
InitCalls ==
  /\ src = <<>>
  /\ pc = "idle"
  /\ Blank
  /\ history = <<>>
  /\ SegIdle
  /\ OthersIdle

\* replaceIdentifiersInSegment about to be called on its own
InitSeg ==
  /\ src = <<>>
  /\ pc = "idle"
  /\ Blank
  /\ history = <<>>
  /\ seg \in SegInputs
  /\ segMap \in SegMaps
  /\ segOut = <<>>
  /\ segPc = "call"
  /\ OthersIdle

\* ------------------------------------------------------------------------
\* smartRename, step by step
\* ------------------------------------------------------------------------

\* const maskData = maskStringsAndComments(code)
Mask ==
  /\ pc = "mask"
  /\ maskData' = maskStringsAndComments(src)
  /\ pc' = "analyze"
  /\ UNCHANGED <<src, analysis, renameMap, usedNames, renamed, result, history>>
  /\ UNCHANGED segVars
  /\ UNCHANGED otherVars

\* const analysis = analyzeCode(working); a TypeError ends the call
Analyze ==
  /\ pc = "analyze"
  /\ analysis' = analyzeCode(maskData.masked)
  /\ pc' = IF analysis'.threw THEN "threw" ELSE "build"
  /\ UNCHANGED <<src, maskData, renameMap, usedNames, renamed, result, history>>
  /\ UNCHANGED segVars
  /\ UNCHANGED otherVars

\* const renameMap = buildRenameMap(analysis, options)
Build ==
  /\ pc = "build"
  /\ LET r == buildRenameMap(analysis)
     IN  renameMap' = r.map /\ usedNames' = r.used
  /\ pc' = "apply"
  /\ UNCHANGED <<src, maskData, analysis, renamed, result, history>>
  /\ UNCHANGED segVars
  /\ UNCHANGED otherVars

\* let renamed = applyRenamesMaskSafe(working, renameMap, maskData)
Apply ==
  /\ pc = "apply"
  /\ renamed' = applyRenamesMaskSafe(maskData.masked, renameMap)
  /\ pc' = "restore"
  /\ UNCHANGED <<src, maskData, analysis, renameMap, usedNames, result, history>>
  /\ UNCHANGED segVars
  /\ UNCHANGED otherVars

\* const restored = restoreMasked(renamed, maskData); return restored
Restore ==
  /\ pc = "restore"
  /\ result' = restoreMasked(renamed, maskData)
  /\ pc' = "done"
  /\ UNCHANGED <<src, maskData, analysis, renameMap, usedNames, renamed, history>>
  /\ UNCHANGED segVars
  /\ UNCHANGED otherVars

\* the caller takes the outcome of the call: the string returned, or the error
Return ==
  /\ pc \in {"done", "threw"}
  /\ history' = Append(history, [input |-> src, threw |-> pc = "threw",
                                 output |-> IF pc = "threw" THEN <<>> ELSE result])
  /\ pc' = "idle"
  /\ UNCHANGED <<src, maskData, analysis, renameMap, usedNames, renamed, result>>
  /\ UNCHANGED segVars
  /\ UNCHANGED otherVars

\* the next request calls smartRename(code); nothing of the module is reset,
\* the call makes its own tables
Call ==
  /\ pc = "idle"
  /\ Len(history) < MaxCalls
  /\ src' \in CallInputs
  /\ pc' = "mask"
  /\ UNCHANGED <<maskData, analysis, renameMap, usedNames, renamed, result, history>>
  /\ UNCHANGED segVars
  /\ UNCHANGED otherVars

\* replaceIdentifiersInSegment(seg, renameMap) on its own
SegReplace ==
  /\ segPc = "call"
  /\ segOut' = replaceIdentifiersInSegment(seg, segMap)
  /\ segPc' = "done"
  /\ UNCHANGED <<seg, segMap, history>>
  /\ UNCHANGED callVars
  /\ UNCHANGED otherVars

Next == Mask \/ Analyze \/ Build \/ Apply \/ Restore

Spec == Init /\ [][Next]_vars

SpecBuild == InitBuild /\ [][Next]_vars

NextCalls == Call \/ Mask \/ Analyze \/ Build \/ Apply \/ Restore \/ Return

SpecCalls == InitCalls /\ [][NextCalls]_vars

NextSeg == SegReplace

SpecSeg == InitSeg /\ [][NextSeg]_vars

\* ------------------------------------------------------------------------
\* The route handlers, one request each
\* ------------------------------------------------------------------------

\* a request arrived at one of the three routes
InitRoutes ==
  /\ src = <<>>
  /\ pc = "idle"
  /\ Blank
  /\ history = <<>>
  /\ SegIdle
  /\ MaskerIdle
  /\ InferIdle
  /\ ScanIdle
  /\ ClientIdle
  /\ request \in Requests
  /\ routePc = "received"
  /\ responses = <<>>
  /\ calls = <<>>
  /\ caught = <<>>

\* what a handler leaves behind: the response sent, the calls made, the error caught
Answer(response, made, err) ==
  /\ responses' = Append(responses, response)
  /\ calls' = calls \o made
  /\ caught' = err
  /\ routePc' = "responded"
  /\ UNCHANGED request
  /\ UNCHANGED <<callVars, history, segVars, maskerVars, inferVars, scanVars, clientVars>>

NoCodeProvided == ErrorResponse(400, <<"N","o"," ","c","o","d","e"," ","p","r","o","v","i","d","e","d">>)

\* app.post('/beautify', ...)
PostBeautify ==
  /\ routePc = "received"
  /\ request.path = "/beautify"
  /\ IF ~Truthy(request.code) THEN Answer(NoCodeProvided, <<>>, <<>>)
     ELSE IF IndentationThrows(request.options)
       THEN Answer(ErrorResponse(500, <<"R","a","n","g","e","E","r","r","o","r",":"," ","I","n","v","a","l","i","d"," ","c","o","u","n","t"," ","v","a","l","u","e",":"," ","-","1">>), <<>>,
                   <<"R","a","n","g","e","E","r","r","o","r">>)
     ELSE \E r \in FormatterOutcomes(request.code) :
            LET made == << [fn |-> "luaFormat.Beautify", code |-> request.code,
                            options |-> BeautifyOptions(request.options)] >>
            IN  IF r.threw THEN Answer(ErrorResponse(500, <<"E","r","r","o","r">>), made, <<"E","r","r","o","r">>)
                ELSE Answer(ResultResponse(BeautifyPost(r.text, request.options)),
                            made, <<>>)

\* app.post('/minify', ...)
PostMinify ==
  /\ routePc = "received"
  /\ request.path = "/minify"
  /\ IF ~Truthy(request.code) THEN Answer(NoCodeProvided, <<>>, <<>>)
     ELSE \E r \in FormatterOutcomes(request.code) :
            LET made == << [fn |-> "luaFormat.Minify", code |-> request.code,
                            options |-> MinifyOptions(request.options)] >>
            IN  IF r.threw THEN Answer(ErrorResponse(500, <<"E","r","r","o","r">>), made, <<"E","r","r","o","r">>)
                ELSE Answer(ResultResponse(MinifyPost(r.text, request.options)),
                            made, <<>>)

\* app.post('/api/detect-vars', ...).  regex.exec(code) takes any value as
\* String(code); solvedCode.replace exists for a string only, for any other
\* value the call throws a TypeError after the two scans ran.
PostDetectVars ==
  /\ routePc = "received"
  /\ request.path = "/api/detect-vars"
  /\ LET made == << [fn |-> "regex.exec", code |-> request.code, options |-> NoOptions] >>
     IN  IF ~Truthy(request.code) THEN Answer(NoCodeProvided, <<>>, <<>>)
         ELSE IF request.code.type # "string"
           THEN Answer(ErrorResponse(500, <<"T","y","p","e","E","r","r","o","r",":"," ","s","o","l","v","e","d","C","o","d","e",".","r","e","p","l","a","c","e"," ","i","s"," ","n","o","t"," ","a"," ","f","u","n","c","t","i","o","n">>),
                       made, <<"T","y","p","e","E","r","r","o","r">>)
         ELSE Answer(DetectResponse(detectVars(request.code.text)), made, <<>>)

NextRoutes == PostBeautify \/ PostMinify \/ PostDetectVars

SpecRoutes == InitRoutes /\ [][NextRoutes]_vars

\* ------------------------------------------------------------------------
\* maskStringsAndComments turn by turn, then restoreMasked
\* ------------------------------------------------------------------------

\* maskStringsAndComments(src) was called: parts = [], out = "", i = 0
InitMasker ==
  /\ src = <<>>
  /\ pc = "idle"
  /\ Blank
  /\ history = <<>>
  /\ SegIdle
  /\ RouteIdle
  /\ InferIdle
  /\ ScanIdle
  /\ ClientIdle
  /\ maskSrc \in MaskInputs
  /\ maskI = 1
  /\ maskOut = <<>>
  /\ maskParts = <<>>
  /\ maskPc = "loop"
  /\ restored = <<>>

\* one turn of while (i < L): a span is recorded and replaced by its
\* placeholder, or one character is copied
MaskTurn ==
  /\ maskPc = "loop"
  /\ maskI <= Len(maskSrc)
  /\ LET r == MaskAt(maskSrc, maskI, maskOut, maskParts)
     IN  /\ maskI' = r.i
         /\ maskOut' = r.masked
         /\ maskParts' = r.parts
  /\ UNCHANGED <<maskSrc, maskPc, restored>>
  /\ UNCHANGED <<callVars, history, segVars, routeVars, inferVars, scanVars, clientVars>>

\* return { masked: out, parts }
MaskReturn ==
  /\ maskPc = "loop"
  /\ maskI > Len(maskSrc)
  /\ maskPc' = "masked"
  /\ UNCHANGED <<maskSrc, maskI, maskOut, maskParts, restored>>
  /\ UNCHANGED <<callVars, history, segVars, routeVars, inferVars, scanVars, clientVars>>

\* restoreMasked(maskData.masked, maskData)
RestoreMasked ==
  /\ maskPc = "masked"
  /\ restored' = restoreMasked(maskOut, [masked |-> maskOut, parts |-> maskParts])
  /\ maskPc' = "restored"
  /\ UNCHANGED <<maskSrc, maskI, maskOut, maskParts>>
  /\ UNCHANGED <<callVars, history, segVars, routeVars, inferVars, scanVars, clientVars>>

NextMasker == MaskTurn \/ MaskReturn \/ RestoreMasked

SpecMasker == InitMasker /\ [][NextMasker]_vars

\* ------------------------------------------------------------------------
\* inferFromRHS on its own
\* ------------------------------------------------------------------------

InitInfer ==
  /\ src = <<>>
  /\ pc = "idle"
  /\ Blank
  /\ history = <<>>
  /\ SegIdle
  /\ RouteIdle
  /\ MaskerIdle
  /\ ScanIdle
  /\ ClientIdle
  /\ inferRhs \in InferInputs
  /\ inferProps \in InferHints
  /\ inferred = <<>>
  /\ inferPc = "call"

\* inferFromRHS(rhs, nameHintFromProps)
Infer ==
  /\ inferPc = "call"
  /\ inferred' = inferFromRHS(inferRhs, inferProps)
  /\ inferPc' = "done"
  /\ UNCHANGED <<inferRhs, inferProps>>
  /\ UNCHANGED <<callVars, history, segVars, routeVars, maskerVars, scanVars, clientVars>>

NextInfer == Infer

SpecInfer == InitInfer /\ [][NextInfer]_vars


\* ------------------------------------------------------------------------
\* The first loop of analyzeCode, line by line
\* ------------------------------------------------------------------------

InitScan ==
  /\ src = <<>>
  /\ pc = "idle"
  /\ Blank
  /\ history = <<>>
  /\ SegIdle
  /\ RouteIdle
  /\ MaskerIdle
  /\ InferIdle
  /\ ClientIdle
  /\ lines \in ScanInputs
  /\ li = 1
  /\ funcStack = <<>>
  /\ functions = <<>>
  /\ scanPc = "loop"

\* one turn of for (let li = 0; li < lines.length; li++): a header is pushed,
\* an end pops the top of the stack and emits it, or the line is added to the
\* function on top
ScanLine ==
  /\ scanPc = "loop"
  /\ li <= Len(lines)
  /\ LET r == FuncStep(lines, li, funcStack, functions)
     IN  /\ funcStack' = r.stack
         /\ functions' = r.functions
  /\ li' = li + 1
  /\ UNCHANGED <<lines, scanPc>>
  /\ UNCHANGED <<callVars, history, segVars, routeVars, maskerVars, inferVars, clientVars>>

\* the loop is over; what is left on the stack is dropped
ScanEnd ==
  /\ scanPc = "loop"
  /\ li > Len(lines)
  /\ scanPc' = "done"
  /\ UNCHANGED <<lines, li, funcStack, functions>>
  /\ UNCHANGED <<callVars, history, segVars, routeVars, maskerVars, inferVars, clientVars>>

NextScan == ScanLine \/ ScanEnd

SpecScan == InitScan /\ [][NextScan]_vars

\* ------------------------------------------------------------------------
\* The sequential renamers of the client, entry by entry
\* ------------------------------------------------------------------------

\* data.variables of the answer of /api/detect-vars as entries
DetectedEntries(variables) ==
  [k \in 1..Len(variables) |-> [old |-> variables[k].old, new |-> variables[k].detected]]

\* data.solvedCode || inputCode
SolvedOrInput(data, inputCode) ==
  IF data.solvedCode # <<>> THEN data.solvedCode ELSE inputCode

\* applySemanticRenames about to walk a mapping, or detectAndRename about to
\* walk the variables the server detected (the smartRename option is on)
InitClient ==
  /\ src = <<>>
  /\ pc = "idle"
  /\ Blank
  /\ history = <<>>
  /\ SegIdle
  /\ RouteIdle
  /\ MaskerIdle
  /\ InferIdle
  /\ ScanIdle
  /\ UsageIdle
  /\ \/ /\ renFn = "applySemanticRenames"
        /\ minifiedCode \in MinifiedCodes
        /\ semantics \in SemanticsValues
     \/ /\ renFn = "detectAndRename"
        /\ \E inputCode \in DetectSources :
              /\ Len(detectVars(inputCode).variables) > 0
              /\ minifiedCode = SolvedOrInput(detectVars(inputCode), inputCode)
              /\ semantics = DetectedEntries(detectVars(inputCode).variables)
  /\ renResult = minifiedCode
  /\ entryAt = 1
  /\ renPc = "loop"

\* one turn of for (const [boringName, semanticName] of Object.entries(semantics))
SemanticEntry ==
  /\ renFn = "applySemanticRenames"
  /\ renPc = "loop"
  /\ entryAt <= Len(semantics)
  /\ renResult' = SemanticTurn(renResult, semantics[entryAt].old, semantics[entryAt].new)
  /\ entryAt' = entryAt + 1
  /\ UNCHANGED <<renFn, minifiedCode, semantics, renPc>>
  /\ UNCHANGED <<callVars, history, segVars, routeVars, maskerVars, inferVars, scanVars,
                 usageVars>>

\* one turn of for (const v of data.variables)
DetectedEntry ==
  /\ renFn = "detectAndRename"
  /\ renPc = "loop"
  /\ entryAt <= Len(semantics)
  /\ renResult' = ReplaceWord(renResult, semantics[entryAt].old, semantics[entryAt].new)
  /\ entryAt' = entryAt + 1
  /\ UNCHANGED <<renFn, minifiedCode, semantics, renPc>>
  /\ UNCHANGED <<callVars, history, segVars, routeVars, maskerVars, inferVars, scanVars,
                 usageVars>>

\* the loop is over: return result, or go on to /beautify with result
RenamesApplied ==
  /\ renPc = "loop"
  /\ entryAt > Len(semantics)
  /\ renPc' = "done"
  /\ UNCHANGED <<renFn, minifiedCode, semantics, entryAt, renResult>>
  /\ UNCHANGED <<callVars, history, segVars, routeVars, maskerVars, inferVars, scanVars,
                 usageVars>>

NextClient == SemanticEntry \/ DetectedEntry \/ RenamesApplied

SpecClient == InitClient /\ [][NextClient]_vars

\* ------------------------------------------------------------------------
\* The first loop of analyzeVariableUsage, line by line
\* ------------------------------------------------------------------------

InitUsage ==
  /\ src = <<>>
  /\ pc = "idle"
  /\ Blank
  /\ history = <<>>
  /\ SegIdle
  /\ RouteIdle
  /\ MaskerIdle
  /\ InferIdle
  /\ ScanIdle
  /\ RenIdle
  /\ varName = <<"v">>
  /\ usageLines \in { SplitOn(code, "\n") : code \in UsageCodes }
  /\ usageLi = 1
  /\ lastIndex = 0
  /\ usageContext = <<>>
  /\ usagePc = "loop"

\* one turn of for (const line of lines): if (varRegex.test(line)) push
UsageLine ==
  /\ usagePc = "loop"
  /\ usageLi <= Len(usageLines)
  /\ LET r == TestFrom(usageLines[usageLi], varName, lastIndex)
     IN  /\ lastIndex' = r.lastIndex
         /\ usageContext' = IF r.found THEN Append(usageContext, Trim(usageLines[usageLi]))
                            ELSE usageContext
  /\ usageLi' = usageLi + 1
  /\ UNCHANGED <<varName, usageLines, usagePc>>
  /\ UNCHANGED <<callVars, history, segVars, routeVars, maskerVars, inferVars, scanVars,
                 renVars>>

\* the loop is over: the usages are collected
UsagesCollected ==
  /\ usagePc = "loop"
  /\ usageLi > Len(usageLines)
  /\ usagePc' = "collected"
  /\ UNCHANGED <<varName, usageLines, usageLi, lastIndex, usageContext>>
  /\ UNCHANGED <<callVars, history, segVars, routeVars, maskerVars, inferVars, scanVars,
                 renVars>>

NextUsage == UsageLine \/ UsagesCollected

SpecUsage == InitUsage /\ [][NextUsage]_vars
\* ------------------------------------------------------------------------
\* smartRename as one function
\* ------------------------------------------------------------------------

\* what one call returns when nothing ran before it: the string, or the error
smartRename(code) ==
  LET m == maskStringsAndComments(code)
      a == analyzeCode(m.masked)
      b == buildRenameMap(a).map
  IN  IF a.threw THEN [threw |-> TRUE, output |-> <<>>]
      ELSE [threw |-> FALSE,
            output |-> restoreMasked(applyRenamesMaskSafe(m.masked, b), m)]

\* ------------------------------------------------------------------------
\* Properties
\* ------------------------------------------------------------------------

\* the new names of the rename map
NewNames == { renameMap[i].new : i \in 1..Len(renameMap) }

\* the texts of parts from index i on occur in text from position from on,
\* one after the other
RECURSIVE OccurInOrder(_, _, _, _)
OccurInOrder(parts, i, text, from) ==
  IF i > Len(parts) THEN TRUE
  ELSE LET p == IndexFrom(text, parts[i].text, from)
       IN  p # 0 /\ OccurInOrder(parts, i + 1, text, p + Len(parts[i].text))

\* C1: literal preservation.  Every span the masker recorded (quoted string,
\* long bracket, comment) occurs unchanged in what smartRename returns, the
\* spans in the order they were recorded.
C1_LiteralPreservation ==
  pc = "done" => OccurInOrder(maskData.parts, 1, result, 1)

\* C2: uniqueness.  The rename map is injective: no two old names have the
\* same new name.
C2_MapInjective ==
  \A i, j \in 1..Len(renameMap) :
     i # j => renameMap[i].new # renameMap[j].new

\* the reserved words of Lua
LuaKeywords ==
  { <<"l","o","c","a","l">>, <<"f","u","n","c","t","i","o","n">>, <<"e","n","d">>, <<"i","f">>, <<"t","h","e","n">>, <<"e","l","s","e">>, <<"t","r","u","e">>, <<"f","a","l","s","e">>,
    <<"n","i","l">>, <<"r","e","t","u","r","n">>, <<"f","o","r">>, <<"w","h","i","l","e">>, <<"d","o">>, <<"r","e","p","e","a","t">>, <<"u","n","t","i","l">>, <<"e","l","s","e","i","f">>,
    <<"a","n","d">>, <<"o","r">>, <<"n","o","t">>, <<"i","n">>, <<"b","r","e","a","k">> }

\* C3: keyword safety.  No new name of the rename map is a reserved word of
\* Lua.
C3_KeywordSafety == NewNames \cap LuaKeywords = {}

\* the identifiers no variable may be renamed to
ProtectedIdentifiers ==
  { <<"g","a","m","e">>, <<"w","o","r","k","s","p","a","c","e">>, <<"s","c","r","i","p","t">>, <<"r","e","q","u","i","r","e">>, <<"p","r","i","n","t">>, <<"w","a","r","n">> }

\* C4: protected identifiers.  No old name is mapped to game, workspace,
\* script, require, print or warn.
C4_ProtectedIdentifiers == NewNames \cap ProtectedIdentifiers = {}

\* the end (exclusive) of the maximal run at p of characters that are all
\* word characters or all not
RunEnd(s, p) ==
  IF s[p] \in WordCh THEN SkipClass(s, p, WordCh)
  ELSE First({q \in p..(Len(s) + 1) : At(s, q) \in WordCh \/ q > Len(s)})

\* s with every whole identifier token that is an old name of map replaced by
\* its new name, and nothing else changed
RECURSIVE TokenReplace(_, _, _)
TokenReplace(s, p, map) ==
  IF p > Len(s) THEN <<>>
  ELSE LET e == RunEnd(s, p)
           w == Slice(s, p, e - 1)
       IN  (IF w \in MapKeys(map) THEN map[MapGet(map, w)].new ELSE w)
             \o TokenReplace(s, e, map)

\* C5: word-boundary correctness.  replaceIdentifiersInSegment replaces an
\* old name exactly where it is a whole identifier token and leaves every
\* other character, an old name inside a longer identifier included, as it was.
C5_WordBoundary ==
  segPc = "done" => segOut = TokenReplace(seg, 1, segMap)

\* a run of the rewriter where one v is a token and another is inside va
C5_Witness ==
  /\ segPc = "done"
  /\ seg = <<"v","a"," ","v">>
  /\ segMap = << [old |-> <<"v">>, new |-> <<"P","l","a","y","e","r","s">>] >>
  /\ segOut = <<"v","a"," ","P","l","a","y","e","r","s">>

\* text shaped like a mask placeholder occurs in s
HasPlaceholderText(s) == \E p \in 1..Len(s) : PlaceholderEnd(s, p) # 0

\* the source from read index i on, its strings and comments copied and the
\* code between them rewritten token by token
RECURSIVE ExpectedFrom(_, _, _)
ExpectedFrom(s, i, map) ==
  IF i > Len(s) THEN <<>>
  ELSE LET n == First({p \in i..(Len(s) + 1) : p > Len(s) \/ StartsSpan(s, p)})
       IN  IF n > i
           THEN TokenReplace(Slice(s, i, n - 1), 1, map) \o ExpectedFrom(s, n, map)
           ELSE LET r == MaskAt(s, i, <<>>, <<>>)
                IN  r.parts[1].text \o ExpectedFrom(s, r.i, map)

\* C6: consistent renaming.  In the output every whole-token occurrence of an
\* old name outside the strings and comments is replaced by its new name, and
\* the strings and comments are as they were (stated for sources that hold no
\* placeholder-shaped text).
C6_ConsistentRenaming ==
  (pc = "done" /\ ~HasPlaceholderText(src)) => result = ExpectedFrom(src, 1, renameMap)

\* C7: idempotence under a fixed map.  Applying the rename map to the text it
\* was already applied to changes nothing.
C7_Idempotent ==
  pc \in {"restore", "done"} => applyRenamesMaskSafe(renamed, renameMap) = renamed

\* C8: smartRename never ends in an error, and returns the empty string for
\* the empty input.
C8_NeverThrows ==
  /\ pc # "threw"
  /\ (pc = "done" /\ src = <<>>) => result = <<>>

\* C9: no state crosses invocations.  Every call that ended returned what
\* smartRename returns for its input when nothing ran before, so two calls
\* on the same input ended alike whatever ran between them.
C9_CallsIndependent ==
  /\ \A i \in 1..Len(history) :
        LET alone == smartRename(history[i].input)
        IN  history[i].threw = alone.threw /\ history[i].output = alone.output
  /\ \A i, j \in 1..Len(history) :
        history[i].input = history[j].input =>
          history[i].threw = history[j].threw /\ history[i].output = history[j].output

\* three calls ended: the first and the third on one source that declares a
\* number, the second on another source that declares a number
C9_Witness ==
  /\ Len(history) = MaxCalls
  /\ history[1].input = <<"l","o","c","a","l"," ","b"," ","="," ","5","\n","p","r","i","n","t","(","b",")">>
  /\ history[2].input = <<"l","o","c","a","l"," ","a"," ","="," ","5">>
  /\ history[2].output = <<"l","o","c","a","l"," ","N","u","m","b","e","r"," ","="," ","5">>
  /\ history[3].input = history[1].input
  /\ history[3].output = <<"l","o","c","a","l"," ","N","u","m","b","e","r"," ","="," ","5","\n","p","r","i","n","t","(","N","u","m","b","e","r",")">>

\* the declaration local n = game:GetService("X") the source starts with: its
\* n and X, or a record with ok false
ServiceDecl(s) ==
  LET e == IdentEnd(s, 7)
      h == <<" ","="," ","g","a","m","e",":","G","e","t","S","e","r","v","i","c","e","(","\"">>
      x == e + Len(h)
      c == IndexFrom(s, <<"\"">>, x)
  IN  IF /\ StartsAt(s, 1, <<"l","o","c","a","l"," ">>)
         /\ e # 0
         /\ StartsAt(s, e, h)
         /\ c > x
         /\ StartsAt(s, c, <<"\"",")">>)
         /\ At(s, c + 2) \in {"", "\n"}
      THEN [ok |-> TRUE, n |-> Slice(s, 7, e - 1), X |-> Slice(s, x, c - 1)]
      ELSE [ok |-> FALSE]

\* name is base, or base followed by digits
IsSuffixed(name, base) ==
  /\ StartsAt(name, 1, base)
  /\ \A k \in (Len(base) + 1)..Len(name) : name[k] \in Digit

\* C10: service-lookup rule.  When the source starts with the declaration
\* local n = game:GetService("X"), the rename map maps n to X, or to X with a
\* numeric suffix.
C10_ServiceLookup ==
  (pc \in {"apply", "restore", "done"} /\ ServiceDecl(src).ok) =>
    \E i \in 1..Len(renameMap) :
       /\ renameMap[i].old = ServiceDecl(src).n
       /\ IsSuffixed(renameMap[i].new, ServiceDecl(src).X)

\* the rename map has been built
MapBuilt == pc \in {"apply", "restore", "done"}

\* the declaration local n = Instance.new("C") the source starts with: its n
\* and C, or a record with ok false
ConstructorDecl(s) ==
  LET e == IdentEnd(s, 7)
      h == <<" ","="," ","I","n","s","t","a","n","c","e",".","n","e","w","(","\"">>
      x == e + Len(h)
      c == IndexFrom(s, <<"\"">>, x)
  IN  IF /\ StartsAt(s, 1, <<"l","o","c","a","l"," ">>)
         /\ e # 0
         /\ StartsAt(s, e, h)
         /\ c > x
         /\ StartsAt(s, c, <<"\"",")">>)
         /\ At(s, c + 2) \in {"", "\n"}
      THEN [ok |-> TRUE, n |-> Slice(s, 7, e - 1), C |-> Slice(s, x, c - 1)]
      ELSE [ok |-> FALSE]

\* C11: constructor rule.  When the source starts with the declaration
\* local n = Instance.new("C"), the rename map maps n to the alias-table name
\* of C when there is one and to C otherwise (a numeric suffix allowed).
C11_ConstructorRule ==
  (MapBuilt /\ ConstructorDecl(src).ok) =>
    \E i \in 1..Len(renameMap) :
       /\ renameMap[i].old = ConstructorDecl(src).n
       /\ \/ IsSuffixed(renameMap[i].new, UiName(ConstructorDecl(src).C))
          \/ IsSuffixed(renameMap[i].new, ConstructorDecl(src).C)

\* old is the name of a local declaration of the analysis
IsLocalName(an, old) == \E i \in 1..Len(an.locals) : an.locals[i].name = old

\* the label the locals pass gives the entry i of the rename map: the base
\* name of the first local declaration of its old name
LabelOf(an, map, i) ==
  LocalBase(an, an.locals[First({k \in 1..Len(an.locals) :
                                   an.locals[k].name = map[i].old})])

\* the rank of entry i among the local entries that got its label
RankOf(an, map, i) ==
  Cardinality({j \in 1..i : /\ IsLocalName(an, map[j].old)
                            /\ LabelOf(an, map, j) = LabelOf(an, map, i)})

\* C13: numeric disambiguation.  Of the local declarations that receive the
\* same label, the first in source order is renamed to the bare label and the
\* k-th (k >= 2) to the label followed by k.
C13_NumericDisambiguation ==
  MapBuilt =>
    \A i \in 1..Len(renameMap) :
       (IsLocalName(analysis, renameMap[i].old)
          /\ LabelOf(analysis, renameMap, i) \notin keywords) =>
         renameMap[i].new =
           IF RankOf(analysis, renameMap, i) = 1
           THEN LabelOf(analysis, renameMap, i)
           ELSE LabelOf(analysis, renameMap, i) \o ToDigits(RankOf(analysis, renameMap, i))

\* the names the scanner identified as declared
DeclaredNames(an) ==
  {an.locals[i].name : i \in 1..Len(an.locals)}
    \cup {an.globals[i].name : i \in 1..Len(an.globals)}
    \cup {an.functions[i].name : i \in 1..Len(an.functions)}

\* C14: total classification.  Every local name, global name and recorded
\* function name of the analysis is a key of the rename map, with a new name
\* that is not empty.
C14_TotalClassification ==
  MapBuilt =>
    \A n \in DeclaredNames(analysis) :
       \E i \in 1..Len(renameMap) :
          renameMap[i].old = n /\ renameMap[i].new # <<>>

\* C18: keywords are never rename targets.  No key of the rename map is a
\* reserved word of Lua.
C18_KeywordsNeverKeys == MapKeys(renameMap) \cap LuaKeywords = {}

\* C12: boolean-comparator return rule.  When the source starts with a local
\* function whose body returns a boolean literal or a comparison, the scanner
\* records the function and the rename map renames it to Check (a numeric
\* suffix allowed).
C12_CheckRule ==
  (MapBuilt /\ DetectFuncAt(src, 1).ok /\ ReturnsBoolean(DetectFuncAt(src, 1).body)) =>
    /\ \E i \in 1..Len(analysis.functions) :
          analysis.functions[i].name = DetectFuncAt(src, 1).funcName
    /\ \E i \in 1..Len(renameMap) :
          /\ renameMap[i].old = DetectFuncAt(src, 1).funcName
          /\ IsSuffixed(renameMap[i].new, <<"C","h","e","c","k">>)

\* the pairs of a rename map or of a detect response, as a set
PairsOfMap(map) == { <<map[i].old, map[i].new>> : i \in 1..Len(map) }

PairsOfDetect(variables) ==
  { <<variables[i].old, variables[i].detected>> : i \in 1..Len(variables) }

\* the request was answered by /api/detect-vars with its pairs
DetectAnswered ==
  /\ routePc = "responded"
  /\ request.path = "/api/detect-vars"
  /\ responses[1].status = 200

\* C16: detect exposes the map that rename applies.  The pairs /api/detect-vars
\* returns for a source are the rename map smartRename builds for it, and the
\* client's loop over the pairs turns the source into what smartRename returns.
C16_DetectIsRenameMap ==
  (DetectAnswered /\ ~smartRename(request.code.text).threw) =>
    LET m == maskStringsAndComments(request.code.text)
    IN  /\ PairsOfDetect(responses[1].variables)
             = PairsOfMap(buildRenameMap(analyzeCode(m.masked)).map)
        /\ ApplyDetected(request.code.text, responses[1].variables, 1)
             = smartRename(request.code.text).output

\* a value of code that is missing, empty or not a string
InvalidCode(v) == v.type # "string" \/ v.text = <<>>

\* C17: boundary validation.  Every request gets exactly one response; a
\* request whose code is missing, empty or not a string is answered with a
\* 4xx status and neither the formatter nor the analysis runs; a failure
\* raised while processing is answered with a 5xx status; every other request
\* is answered with its result.
C17_BoundaryValidation ==
  routePc = "responded" =>
    /\ Len(responses) = 1
    /\ InvalidCode(request.code) =>
          responses[1].status \in 400..499 /\ calls = <<>>
    /\ (~InvalidCode(request.code) /\ caught # <<>>) => responses[1].status \in 500..599
    /\ (~InvalidCode(request.code) /\ caught = <<>>) => responses[1].status = 200

\* the name the first six rules give in the order of the specification:
\* service lookup, constructor, member chain, Vector3/UDim2, boolean, number
NameInSpecOrder(rhs) ==
  IF ServiceName(rhs) # <<>> THEN ServiceName(rhs)
  ELSE IF InstanceClass(rhs) # <<>> THEN UiName(InstanceClass(rhs))
  ELSE IF MemberChainLast(rhs) # <<>> THEN MemberChainLast(rhs)
  ELSE IF Contains(rhs, <<"V","e","c","t","o","r","3",".","n","e","w">>) THEN <<"V","e","c","t","o","r","3","V","a","l","u","e">>
  ELSE IF Contains(rhs, <<"U","D","i","m","2",".","n","e","w">>) THEN <<"U","D","i","m","2","V","a","l","u","e">>
  ELSE IF HasBoolean(rhs) THEN <<"E","n","a","b","l","e","d">>
  ELSE IF IsNumber(rhs) THEN <<"N","u","m","b","e","r">>
  ELSE <<>>

\* C15: first match wins in the specified order.  For a right-hand side that
\* one of the first six rules matches, inferFromRHS returns the name of the
\* first of them in the order service lookup, constructor, member chain,
\* Vector3/UDim2, boolean, number: the constructor rule before the member chain.
C15_RuleOrder ==
  (inferPc = "done" /\ NameInSpecOrder(inferRhs) # <<>>) =>
    inferred = NameInSpecOrder(inferRhs)

\* C20: mask/restore round trip.  For a source that does not contain the
\* marker text __MASK_, restoring the masked buffer gives the source back.
C20_RoundTrip ==
  (maskPc = "restored" /\ ~Contains(maskSrc, <<"_","_","M","A","S","K","_">>)) => restored = maskSrc

\* the kind tag of a table entry
TagOfEntry(part) ==
  IF part.type = "str" THEN <<"S","T","R">>
  ELSE IF part.type = "longstr" THEN <<"L","O","N","G","S","T","R">>
  ELSE IF part.type = "comment" THEN <<"C","O","M","M","E","N","T">>
  ELSE <<"?">>

\* the placeholder of the k-th table entry: its tag and the id k - 1
PlaceholderOfEntry(parts, k) ==
  <<"_","_","M","A","S","K","_">> \o TagOfEntry(parts[k]) \o <<"_">> \o ToDigits(k - 1) \o <<"_","_">>

\* the placeholders of the entries from k on occur in out from position from
\* on, one after the other
RECURSIVE PlaceholdersInOrder(_, _, _, _)
PlaceholdersInOrder(out, parts, k, from) ==
  IF k > Len(parts) THEN TRUE
  ELSE LET p == IndexFrom(out, PlaceholderOfEntry(parts, k), from)
       IN  p # 0 /\ PlaceholdersInOrder(out, parts, k + 1,
                                        p + Len(PlaceholderOfEntry(parts, k)))

\* the placeholder-shaped texts of text from position i on, left to right
RECURSIVE PlaceholdersFrom(_, _)
PlaceholdersFrom(text, i) ==
  LET at == First({p \in i..Len(text) : PlaceholderEnd(text, p) # 0})
  IN  IF at = 0 THEN <<>>
      ELSE <<Slice(text, at, PlaceholderEnd(text, at) - 1)>>
             \o PlaceholdersFrom(text, PlaceholderEnd(text, at))

\* out from position from on with the placeholder of each entry from k on
\* replaced by the text of the entry
RECURSIVE UnmaskFrom(_, _, _, _)
UnmaskFrom(out, parts, k, from) ==
  IF k > Len(parts) THEN Slice(out, from, Len(out))
  ELSE LET p == IndexFrom(out, PlaceholderOfEntry(parts, k), from)
       IN  Slice(out, from, p - 1) \o parts[k].text
             \o UnmaskFrom(out, parts, k + 1, p + Len(PlaceholderOfEntry(parts, k)))

\* what the entries from k on took from the source minus what they put in out
RECURSIVE Shrinkage(_, _)
Shrinkage(parts, k) ==
  IF k > Len(parts) THEN 0
  ELSE Len(parts[k].text) - Len(PlaceholderOfEntry(parts, k)) + Shrinkage(parts, k + 1)

\* the source holds no marker text
MarkerFree(s) == ~Contains(s, <<"_","_","M","A","S","K","_">>)

\* the state of the masker's loop is consistent with one pass over the source
SinglePass ==
  maskPc # "idle" =>
    /\ \A k \in 1..Len(maskParts) : maskParts[k].type \in {"str", "longstr", "comment"}
    /\ PlaceholdersInOrder(maskOut, maskParts, 1, 1)
    /\ Len(maskOut) + Shrinkage(maskParts, 1) = Min(maskI - 1, Len(maskSrc))
    /\ MarkerFree(maskSrc) =>
         /\ PlaceholdersFrom(maskOut, 1)
              = [k \in 1..Len(maskParts) |-> PlaceholderOfEntry(maskParts, k)]
         /\ UnmaskFrom(maskOut, maskParts, 1, 1) = Slice(maskSrc, 1, maskI - 1)

\* C19: masker single-pass invariant.  At every step of maskStringsAndComments
\* the read index moves forward; the characters read so far are exactly the
\* buffer with each placeholder replaced by its table entry; there are as many
\* placeholders in the buffer as table entries, and the k-th from the left
\* carries the id k - 1 and the kind tag of entry k - 1 (the last two for
\* sources without marker text, whose buffer holds no other placeholder-shaped
\* text).
C19_SinglePass ==
  /\ []SinglePass
  /\ [][(maskPc = "loop" /\ maskI <= Len(maskSrc)) => maskI' > maskI]_vars

\* the masker returned for a source with one span of each kind
C19_Witness ==
  /\ maskPc = "masked"
  /\ maskSrc = <<"\"","a","\"","[","[","x","]","]","-","-","c">>
  /\ maskI = Len(maskSrc) + 1
  /\ maskOut = <<"_","_","M","A","S","K","_","S","T","R","_","0","_","_","_","_","M","A","S","K","_","L","O","N","G","S","T","R","_","1","_","_","_","_","M","A","S","K","_","C","O","M","M","E","N","T","_","2","_","_">>
  /\ Len(maskParts) = 3

\* ------------------------------------------------------------------------
\* The handlers with smart rename (src/unnamed/part_002), one request each
\* ------------------------------------------------------------------------

\* how a request sets one flag: true, false, or not at all
FlagSettings == {"on", "off", "absent"}

OptionsWith(rv, sr, others, hasSize, size) ==
  [defined |-> TRUE,
   on  |-> {f \in {"renameVariables"} : rv = "on"} \cup {f \in {"smartRename"} : sr = "on"}
             \cup others,
   off |-> {f \in {"renameVariables"} : rv = "off"} \cup {f \in {"smartRename"} : sr = "off"},
   hasIndentSize |-> hasSize, indentSize |-> size]

\* the field options of the requests to the handlers with smart rename
SmartOptionValues ==
  {NoOptions}
    \cup { OptionsWith(rv, sr, others, FALSE, 0) :
             rv \in FlagSettings, sr \in FlagSettings,
             others \in { {}, {"removeStrings", "normalizeQuotes", "removeBlankLines"} } }
    \cup { OptionsWith("on", "on", {}, TRUE, -1) }

\* the sources of the requests to the handlers with smart rename
SmartSources == { <<"l","o","c","a","l"," ","a"," ","="," ","5">>, <<"v","a","l","u","e"," ","="," ","v">>, <<"x"," ","="," ","'","q","'">>, <<"v","a","l","u","e","O","f",".","x"," ","="," ","1">> }

SmartCodeValues ==
  { c \in CodeValues : c.type # "string" \/ c.text = <<>> \/ c.text \in SmartSources }
    \cup { [type |-> "string", text |-> t] : t \in SmartSources }

SmartRequests ==
  [path : {"/beautify", "/minify"}, code : SmartCodeValues, options : SmartOptionValues]

\* if (options?.renameVariables && options?.smartRename)
SmartApplied(options) == Flag(options, "renameVariables") /\ Flag(options, "smartRename")

\* options?.renameVariables ?? default, the option without regard to smartRename
RenameVariablesAlone(options, default) == FlagOr(options, "renameVariables", default)

\* (options?.renameVariables && !options?.smartRename) ?? default: the
\* conjunction is undefined when renameVariables is not there, false when it
\* is false, and !smartRename otherwise
RenameVariablesOr(options, default) ==
  IF "renameVariables" \in options.on THEN ~Flag(options, "smartRename")
  ELSE IF "renameVariables" \in options.off THEN FALSE
  ELSE default

\* the options the handlers with smart rename call the formatter with
SmartBeautifyOptions(options) ==
  [RenameVariables |-> RenameVariablesOr(options, FALSE),
   RenameGlobals   |-> FlagOr(options, "renameGlobals", FALSE),
   SolveMath       |-> FlagOr(options, "solveMath", FALSE),
   Indentation     |-> Indentation(options)]

SmartMinifyOptions(options) ==
  [RenameVariables |-> RenameVariablesOr(options, TRUE),
   RenameGlobals   |-> FlagOr(options, "renameGlobals", FALSE),
   SolveMath       |-> FlagOr(options, "solveMath", FALSE),
   Indentation     |-> <<>>]

\* the text smartRename scans for a value of code: a value that is no
\* string has no characters to scan (its length is undefined, or 0 for the
\* empty array), the loop of the masker is not entered
ScannedText(code) == IF code.type = "string" THEN code.text ELSE <<>>

\* processedCode after the inner try: what smartRename returned, or code
\* when the renaming was not asked for or threw
ProcessedCode ==
  IF routePc = "renamed" /\ pc = "done" THEN [type |-> "string", text |-> result]
  ELSE request.code

\* result.replace(/"[^"]*"|'[^']*'/g, '""') from position i on
RECURSIVE RemoveStringsFrom(_, _)
RemoveStringsFrom(s, i) ==
  LET Closes(p) == First({k \in (p + 1)..Len(s) : s[k] = s[p]})
      at == First({p \in i..Len(s) : s[p] \in QuoteCh /\ Closes(p) # 0})
  IN  IF at = 0 THEN Slice(s, i, Len(s))
      ELSE Slice(s, i, at - 1) \o <<"\"", "\"">> \o RemoveStringsFrom(s, Closes(at) + 1)

removeStrings(s) == RemoveStringsFrom(s, 1)

\* the post-processing of /minify with removeStrings
SmartMinifyPost(formatted, options) ==
  LET r1 == IF Flag(options, "removeWhitespace") THEN removeWhitespace(formatted) ELSE formatted
      r2 == IF Flag(options, "removeStrings") THEN removeStrings(r1) ELSE r1
      r3 == IF Flag(options, "removeComments") THEN removeComments(r2) ELSE r2
      r4 == IF Flag(options, "convertNumberFormats") THEN convertNumberFormats(r3) ELSE r3
  IN  IF Flag(options, "compressStrings") THEN compressStrings(r4) ELSE r4

InitSmartRoutes ==
  /\ src = <<>>
  /\ pc = "idle"
  /\ Blank
  /\ history = <<>>
  /\ SegIdle
  /\ MaskerIdle
  /\ InferIdle
  /\ ScanIdle
  /\ ClientIdle
  /\ request \in SmartRequests
  /\ routePc = "smart"
  /\ responses = <<>>
  /\ calls = <<>>
  /\ caught = <<>>

\* the handler up to the call of smartRename: the code is refused, or
\* smartRename(code) is entered, or the handler goes on without it
Received ==
  /\ routePc = "smart"
  /\ IF ~Truthy(request.code) THEN Answer(NoCodeProvided, <<>>, <<>>)
     ELSE IF SmartApplied(request.options)
       THEN /\ src' = ScannedText(request.code)
            /\ pc' = "mask"
            /\ routePc' = "renaming"
            /\ calls' = Append(calls, [fn |-> "smartRename", code |-> request.code,
                                       options |-> NoOptions])
            /\ UNCHANGED <<maskData, analysis, renameMap, usedNames, renamed, result>>
            /\ UNCHANGED <<request, responses, caught>>
            /\ UNCHANGED <<history, segVars, maskerVars, inferVars, scanVars, clientVars>>
       ELSE /\ routePc' = "renamed"
            /\ UNCHANGED <<request, responses, calls, caught>>
            /\ UNCHANGED <<callVars, history, segVars, maskerVars, inferVars, scanVars,
                           clientVars>>

\* app.post('/beautify', ...) with smart rename, up to the inner try
SmartBeautify ==
  /\ request.path = "/beautify"
  /\ Received

\* app.post('/minify', ...) with smart rename, up to the inner try
SmartMinify ==
  /\ request.path = "/minify"
  /\ Received

\* smartRename returned or threw inside the inner try; a throw is caught and
\* logged, the handler goes on with code
SmartRenameReturns ==
  /\ routePc = "renaming"
  /\ pc \in {"done", "threw"}
  /\ routePc' = "renamed"
  /\ UNCHANGED <<request, responses, calls, caught>>
  /\ UNCHANGED <<callVars, history, segVars, maskerVars, inferVars, scanVars, clientVars>>

\* /beautify after the inner try: the options of the formatter are built
\* (the indentation may throw), the formatter runs, the result is
\* post-processed and sent
BeautifyFormats ==
  /\ routePc = "renamed"
  /\ request.path = "/beautify"
  /\ IF IndentationThrows(request.options)
       THEN Answer(ErrorResponse(500, <<"R","a","n","g","e","E","r","r","o","r",":"," ","I","n","v","a","l","i","d"," ","c","o","u","n","t"," ","v","a","l","u","e",":"," ","-","1">>), <<>>,
                   <<"R","a","n","g","e","E","r","r","o","r">>)
     ELSE \E r \in FormatterOutcomes(ProcessedCode) :
            LET made == << [fn |-> "luaFormat.Beautify", code |-> ProcessedCode,
                            options |-> SmartBeautifyOptions(request.options)] >>
            IN  IF r.threw THEN Answer(ErrorResponse(500, <<"E","r","r","o","r">>), made, <<"E","r","r","o","r">>)
                ELSE Answer(ResultResponse(BeautifyPost(r.text, request.options)),
                            made, <<>>)

\* /minify after the inner try
MinifyFormats ==
  /\ routePc = "renamed"
  /\ request.path = "/minify"
  /\ \E r \in FormatterOutcomes(ProcessedCode) :
       LET made == << [fn |-> "luaFormat.Minify", code |-> ProcessedCode,
                       options |-> SmartMinifyOptions(request.options)] >>
       IN  IF r.threw THEN Answer(ErrorResponse(500, <<"E","r","r","o","r">>), made, <<"E","r","r","o","r">>)
           ELSE Answer(ResultResponse(SmartMinifyPost(r.text, request.options)),
                       made, <<>>)

NextSmartRoutes ==
  \/ SmartBeautify \/ SmartMinify
  \/ Mask \/ Analyze \/ Build \/ Apply \/ Restore
  \/ SmartRenameReturns
  \/ BeautifyFormats \/ MinifyFormats

SpecSmartRoutes == InitSmartRoutes /\ [][NextSmartRoutes]_vars


\* the number of backslashes right before position p of s, not counting
\* positions up to open
BackslashRun(s, open, p) ==
  LET stop == First({k \in 0..(p - 1) :
                       \A m \in (k + 1)..(p - 1) : m > open /\ s[m] = "\\"})
  IN  p - 1 - stop

\* the quote that closes the string opened at position open of s: the first
\* quote equal to the opening one with an even number of backslashes between
\* the last character that is no backslash and itself; 0 when there is none
ClosingQuote(s, open) ==
  First({p \in (open + 1)..Len(s) :
           s[p] = s[open] /\ BackslashRun(s, open, p) % 2 = 0})

\* the masker's turn at a quote: the read index is on a quote character
QuoteTurn ==
  /\ maskPc = "loop"
  /\ maskI <= Len(maskSrc)
  /\ maskSrc[maskI] \in {"\"", "'"}

\* C21: escaped quotes.  A turn of the masker that starts on a quote whose
\* string has a closing quote (the first equal quote not escaped by a
\* backslash) records the span from the opening quote to that closing quote,
\* neither shorter nor longer, and goes on right after it.
C21_EscapedQuotes ==
  [][ (QuoteTurn /\ ClosingQuote(maskSrc, maskI) # 0) =>
        /\ maskParts' = Append(maskParts,
                          [type |-> "str",
                           text |-> Slice(maskSrc, maskI, ClosingQuote(maskSrc, maskI))])
        /\ maskI' = ClosingQuote(maskSrc, maskI) + 1 ]_vars

\* the string "\"" was masked as one span: the escaped quote did not end it
C21_Witness ==
  /\ maskPc = "masked"
  /\ maskSrc = <<"\"","\\","\"","\"">>
  /\ maskParts = << [type |-> "str", text |-> <<"\"","\\","\"","\"">>] >>
  /\ maskOut = <<"_","_","M","A","S","K","_","S","T","R","_","0","_","_">>

\* the kind of the literal that opens at position i of s and has no closing
\* delimiter before the end of s; "" when no such literal opens there
UnterminatedAt(s, i) ==
  IF StartsAt(s, i, <<"[","[">>)
  THEN IF IndexFrom(s, <<"]","]">>, i + 2) = 0 THEN "longstr" ELSE ""
  ELSE IF s[i] \in {"\"", "'"}
  THEN IF ClosingQuote(s, i) = 0 THEN "str" ELSE ""
  ELSE IF StartsAt(s, i, <<"-","-","[","[">>)
  THEN IF IndexFrom(s, <<"]","]">>, i + 4) = 0 THEN "comment" ELSE ""
  ELSE ""

\* the masker's read index is on a literal that is never closed
UnterminatedTurn ==
  /\ maskPc = "loop"
  /\ maskI <= Len(maskSrc)
  /\ UnterminatedAt(maskSrc, maskI) # ""

\* what a turn on an unterminated literal does: one span from the opening
\* delimiter to the end of the buffer, one placeholder for it, and the loop
\* is over
UnterminatedMasked ==
  [][ UnterminatedTurn =>
        /\ maskParts' = Append(maskParts,
                          [type |-> UnterminatedAt(maskSrc, maskI),
                           text |-> Slice(maskSrc, maskI, Len(maskSrc))])
        /\ maskOut' = maskOut \o PlaceholderOfEntry(maskParts', Len(maskParts'))
        /\ maskI' > Len(maskSrc)
        /\ maskPc' = "loop" ]_vars

\* C22: unterminated literals.  When a quoted string, a long bracket or a
\* block comment is not closed before the end of the input (a string that
\* ends in a lone backslash included), the masker records one span whose text
\* is the source from the opening delimiter to the end of the buffer, writes
\* one placeholder for it, and returns.
C22_UnterminatedLiterals ==
  /\ UnterminatedMasked
  /\ [](maskPc \in {"loop", "masked", "restored"})
  /\ [][(maskPc = "loop" /\ maskI > Len(maskSrc)) => maskPc' = "masked"]_vars

\* the long bracket of z[[w] is never closed: it was masked to the end
C22_Witness ==
  /\ maskPc = "masked"
  /\ maskSrc = <<"z","[","[","w","]">>
  /\ maskParts = << [type |-> "longstr", text |-> <<"[","[","w","]">>] >>
  /\ maskOut = <<"z","_","_","M","A","S","K","_","L","O","N","G","S","T","R","_","0","_","_">>

\* the loop of analyzeCode is about to read a line
ScanTurn == scanPc = "loop" /\ li <= Len(lines)

BareEnd(line) == Trim(line) = <<"e","n","d">>

\* the line opens a block that an end of a later line closes: a function
\* header, or if, for or while, without an end of its own
OpensBlock(line) ==
  /\ ~HasEnd(line)
  /\ \/ FuncHeader(line).ok
     \/ StartsAt(Trim(line), 1, <<"i","f"," ">>)
     \/ StartsAt(Trim(line), 1, <<"f","o","r"," ">>)
     \/ StartsAt(Trim(line), 1, <<"w","h","i","l","e"," ">>)

\* the line (1-based) of the bare end that closes the block opened before line
\* k with depth blocks open, 0 when the text ends first
RECURSIVE ClosingEnd(_, _, _)
ClosingEnd(ls, k, depth) ==
  IF k > Len(ls) THEN 0
  ELSE IF BareEnd(ls[k])
       THEN IF depth = 1 THEN k ELSE ClosingEnd(ls, k + 1, depth - 1)
       ELSE ClosingEnd(ls, k + 1, IF OpensBlock(ls[k]) THEN depth + 1 ELSE depth)

\* the record of the function whose header is on line a and whose end is on
\* line e (1-based): the span in the source's 0-based line numbers and the
\* lines in between
SpanOf(ls, a, e) ==
  [start |-> a - 1, end |-> e - 1, rawBody |-> JoinWith(Slice(ls, a + 1, e - 1), <<"\n">>)]

\* C24: function span.  Each recorded function spans from its header line to
\* the line of the end that closes that function, with the lines in between
\* for its body; an end that closes a nested block or shares its line with
\* other tokens pops nothing; and a function with header and end on one line
\* is recorded with that line as start and end.
C24_FunctionSpan ==
  /\ [](\A n \in 1..Len(functions) :
          LET f == functions[n]
              e == ClosingEnd(lines, f.start + 2, 1)
          IN  [start |-> f.start, end |-> f.end, rawBody |-> f.rawBody]
                = SpanOf(lines, f.start + 1, e))
  /\ [][ (ScanTurn /\ HasEnd(lines[li]) /\ ~BareEnd(lines[li])
            /\ ~FuncHeader(lines[li]).ok) =>
           (funcStack' = funcStack \/ funcStack' = PushLine(funcStack, lines[li])) ]_vars
  /\ [][ (ScanTurn /\ HasEnd(lines[li]) /\ FuncHeader(lines[li]).ok) =>
           /\ Len(functions') = Len(functions) + 1
           /\ functions'[Len(functions')].start = li - 1
           /\ functions'[Len(functions')].end = li - 1 ]_vars

\* the number of function headers among the lines read so far
HeadersSeen == Cardinality({k \in 1..(li - 1) : FuncHeader(lines[k]).ok})

\* depth and span: the stack holds the headers seen and not emitted, and
\* every emitted function ends after it starts
DepthAndSpan ==
  /\ Len(funcStack) = HeadersSeen - Len(functions)
  /\ HeadersSeen >= Len(functions)
  /\ \A n \in 1..Len(functions) : functions[n].start < functions[n].end

\* C25 as the specification words it: of two emitted functions, the one
\* with the later header is emitted first and lies strictly inside the other.
C25_AsStated ==
  /\ DepthAndSpan
  /\ \A m, n \in 1..Len(functions) :
       functions[m].start < functions[n].start =>
         /\ n < m
         /\ functions[n].end < functions[m].end

\* C25: function-stack invariant.  After any sequence of lines the stack
\* depth is the number of headers seen minus the number of functions emitted;
\* every emitted function has start < end; and of two emitted functions with
\* headers at a < b, either the function of a ended before line b and was
\* emitted first, or the function of b was emitted first and its span lies
\* strictly inside the span of a.
C25_StackInvariant ==
  /\ DepthAndSpan
  /\ \A m, n \in 1..Len(functions) :
       functions[m].start < functions[n].start =>
         \/ m < n /\ functions[m].end < functions[n].start
         \/ n < m /\ functions[n].end < functions[m].end

\* g is declared inside f: g was emitted first, and its span is inside f's
C25_Witness ==
  /\ scanPc = "done"
  /\ lines = << <<"f","u","n","c","t","i","o","n"," ","f","(",")">>, <<"l","o","c","a","l"," ","f","u","n","c","t","i","o","n"," ","g","(","a",")">>, <<"e","n","d">>, <<"e","n","d">> >>
  /\ funcStack = <<>>
  /\ Len(functions) = 2
  /\ functions[1].name = <<"g">> /\ functions[1].start = 1 /\ functions[1].end = 2
  /\ functions[2].name = <<"f">> /\ functions[2].start = 0 /\ functions[2].end = 3

\* the functions fs by the line of their header
RECURSIVE BySource(_)
BySource(fs) ==
  IF fs = <<>> THEN <<>>
  ELSE LET m == CHOOSE i \in 1..Len(fs) : \A j \in 1..Len(fs) : fs[i].start <= fs[j].start
       IN  <<fs[m]>> \o BySource(SubSeq(fs, 1, m - 1) \o SubSeq(fs, m + 1, Len(fs)))

\* the declarations of the analysis in the order locals, globals, functions,
\* each class in source order, with the label of each
DeclarationsInOrder(an) ==
  [i \in 1..Len(an.locals) |->
     [old |-> an.locals[i].name, base |-> LocalBase(an, an.locals[i])]]
  \o [i \in 1..Len(an.globals) |->
     [old |-> an.globals[i].name, base |-> GlobalBase(an, an.globals[i])]]
  \o [i \in 1..Len(an.functions) |->
     [old |-> BySource(an.functions)[i].name, base |-> FunctionBase(BySource(an.functions)[i])]]

\* the label of the first declaration of old in that order
FirstLabel(an, old) ==
  LET ds == DeclarationsInOrder(an)
  IN  ds[First({k \in 1..Len(ds) : ds[k].old = old})].base

\* the place of the first declaration of old in that order
FirstPlace(an, old) ==
  First({k \in 1..Len(DeclarationsInOrder(an)) : DeclarationsInOrder(an)[k].old = old})

\* C26: processing order.  The entries of the rename map are in the order of
\* the first declarations of their old names, taken locals first, then
\* globals, then functions, each class in source order; the new name of an
\* entry comes from the label of that first declaration; and of the entries
\* with the same label the first in that order has the bare label.
C26_ProcessingOrder ==
  MapBuilt =>
    /\ \A i, j \in 1..Len(renameMap) :
         i < j => FirstPlace(analysis, renameMap[i].old) < FirstPlace(analysis, renameMap[j].old)
    /\ \A i \in 1..Len(renameMap) :
         /\ IsSuffixed(renameMap[i].new, FirstLabel(analysis, renameMap[i].old))
         /\ (\A j \in 1..(i - 1) :
               FirstLabel(analysis, renameMap[j].old) # FirstLabel(analysis, renameMap[i].old))
              => renameMap[i].new = FirstLabel(analysis, renameMap[i].old)

\* the entries of a mapping that rename: those the renamer does not skip
Renaming(fn, entries) ==
  SelectSeq(entries,
            LAMBDA e : fn = "detectAndRename"
                         \/ SemanticTurn(e.old, e.old, e.new) # e.old)

\* C27: simultaneous application.  What the sequential renamers return is the
\* text they started from with every whole-word identifier that is the old
\* name of an entry replaced once, by the new name of that entry: a name an
\* entry produced is not renamed again by a later entry.
C27_SimultaneousRenames ==
  renPc = "done" =>
    renResult = TokenReplace(minifiedCode, 1, Renaming(renFn, semantics))

\* the varName occurs in the line as a whole word
OccursIn(line, name) == \E p \in 1..Len(line) : WordAt(line, p, name)

\* C28: usage collection.  The usage context of analyzeVariableUsage holds
\* every line of the code in which the variable name occurs as a whole word
\* (trimmed, in order), and no other line.
C28_AllUsages ==
  usagePc = "collected" =>
    usageContext =
      LET hits == SelectSeq(usageLines, LAMBDA l : OccursIn(l, varName))
      IN  [k \in 1..Len(hits) |-> Trim(hits[k])]

\* the character before position p of code that is no white space, "" when
\* there is none
CharBefore(code, p) ==
  LET qs == {q \in 1..(p - 1) : code[q] \notin SpaceCh}
  IN  IF qs = {} THEN "" ELSE code[CHOOSE q \in qs : \A r \in qs : r <= q]

\* the text a op b matched at p is an arithmetic expression of its own: its
\* operands are whole numbers, not the end of a name or part of a decimal,
\* and no operator next to it binds one of its operands more tightly
CompleteAt(code, p, m) ==
  /\ At(code, p - 1) \notin WordCh \cup {"."}
  /\ At(code, m.lastIndex) \notin WordCh \cup {"."}
  /\ CharBefore(code, p) \notin {"-", "*", "/", "%", "^"}
  /\ At(code, SkipClass(code, m.lastIndex, SpaceCh)) # "^"
  /\ m.op \in {"+", "-"} =>
       At(code, SkipClass(code, m.lastIndex, SpaceCh)) \notin {"*", "/", "%"}

\* the value the handler writes for a op b is the value Lua gives it: a
\* division is exact and not by zero, a remainder is not by zero
LuaValueAt(m) ==
  /\ m.op = "/" => parseInt(m.b) # 0 /\ parseInt(m.a) % parseInt(m.b) = 0
  /\ m.op = "%" => parseInt(m.b) # 0

\* code from position i on with the texts a op b replaced that are complete
\* expressions with a value the handler computes as Lua does
RECURSIVE SolveComplete(_, _)
SolveComplete(code, i) ==
  LET at == First({p \in i..Len(code) : MathAt(code, p).ok})
      m  == MathAt(code, at)
  IN  IF at = 0 THEN Slice(code, i, Len(code))
      ELSE Slice(code, i, at - 1)
             \o (IF CompleteAt(code, at, m) /\ LuaValueAt(m)
                 THEN SolveOp(parseInt(m.a), m.op, parseInt(m.b))
                 ELSE Slice(code, at, m.lastIndex - 1))
             \o SolveComplete(code, m.lastIndex)

\* C29: math pre-calculation preserves values.  In the solvedCode that
\* /api/detect-vars returns, the texts a op b that were replaced are complete
\* arithmetic expressions replaced by their Lua value; the operands of a
\* tighter operator, inexact divisions, divisions by zero and digits of
\* identifiers are left as they were.
C29_MathPreserved ==
  DetectAnswered => responses[1].solvedCode = SolveComplete(request.code.text, 1)

\* the calls of the formatter among the calls a handler made
FormatterCalls ==
  { i \in 1..Len(calls) : calls[i].fn \in {"luaFormat.Beautify", "luaFormat.Minify"} }

\* smartRename was applied to the request
SmartRenameCalled == \E i \in 1..Len(calls) : calls[i].fn = "smartRename"

\* C30: smart rename and formatter renaming are mutually exclusive.  In
\* /beautify and /minify, smartRename is called exactly when renameVariables
\* and smartRename are both truthy, and then every call of the formatter has
\* RenameVariables false; the formatter follows the only call of smartRename.
C30_MutuallyExclusive ==
  routePc = "responded" /\ request.path \in {"/beautify", "/minify"} /\ Truthy(request.code) =>
    /\ SmartRenameCalled <=> (routePc = "responded" /\ calls # <<>> /\ calls[1].fn = "smartRename")
    /\ calls # <<>> /\ calls[1].fn = "smartRename" => SmartApplied(request.options)
    /\ \A i \in FormatterCalls :
         /\ SmartRenameCalled => calls[i].options.RenameVariables = FALSE
         /\ SmartApplied(request.options) => SmartRenameCalled /\ i = 2

\* a request with both flags on was answered 200 after smartRename changed
\* its code and the formatter ran with RenameVariables false
C30_Witness ==
  /\ routePc = "responded"
  /\ responses[1].status = 200
  /\ SmartApplied(request.options)
  /\ Len(calls) = 2
  /\ calls[1].fn = "smartRename"
  /\ calls[2].fn = "luaFormat.Minify"
  /\ calls[2].code # request.code
  /\ calls[2].options.RenameVariables = FALSE
====
